---- MODULE Spec2Model ----
(***************************************************************************)
(* A model of the authenticated graph-access layer of the Hackson backend:  *)
(* the bearer-credential dependencies (strict and optional), the Cypher     *)
(* queries the /graph and /persons handlers issue against the Person graph, *)
(* and the shaping of the records they return.                              *)
(*                                                                          *)
(* Optional values (Python None / an absent Neo4j property) are encoded as  *)
(* sequences: None is << >> and a present value v is << v >>.               *)
(***************************************************************************)
EXTENDS Integers, Sequences, FiniteSets, TLC

VARIABLES
    persons,    \* graph store: the Person nodes, in the store's scan order
    rels,       \* graph store: the relationships, in the store's scan order
    users,      \* relational store: the rows of the users table, in key order
    now,        \* the server clock (datetime.utcnow), in abstract ticks
    served,     \* number of requests handled so far
    resp,       \* the response to the last request, with what the handler did
    inflight    \* PUT /persons/{person_id} requests being handled by
                \* concurrent workers: each one's position and locals

vars == <<persons, rels, users, now, served, resp, inflight>>

----------------------------------------------------------------------------
(* Optional values *)

None == << >>
Some(v) == << v >>

IsNone(x) == x = None

\* Python's dict.get(key, default) on a property that may be absent
GetOr(x, default) == IF x = None THEN default ELSE x[1]

Min(a, b) == IF a <= b THEN a ELSE b

----------------------------------------------------------------------------
(* Bounds of the model *)

MaxPersons == 2     \* Person nodes in a stored graph
MaxRels == 1        \* relationships in a stored graph
MaxTime == 2        \* clock ticks
MaxRequests == 2    \* requests in a behaviour of SpecPersons
MaxNeighbors == 11  \* relationships between two stored Persons
MaxMatches == 51    \* stored Persons in SpecSearch
MaxWriters == 2     \* concurrent workers handling PUT /persons/{person_id}

\* default page size of the graph endpoints (limit_nodes, limit_edges)
DefaultLimit == 100

----------------------------------------------------------------------------
(* The Person graph *)

SourceTypes == {None, Some("system"), Some("public"), Some("user_created")}

PersonFields ==
    {"id", "name", "birth_year", "death_year", "occupation", "specialty",
     "hobby", "achievement", "female_experience", "type", "frequency",
     "degree", "description", "human_readable_id", "knowledge_source",
     "source_type", "created_by", "is_verified", "created_at"}

\* a stored Person node whose only interesting properties are id and source_type
MkPerson(id, st) ==
    [f \in PersonFields |->
        CASE f = "id" -> id
          [] f = "name" -> Some("Ada")
          [] f = "source_type" -> st
          [] f = "created_at" -> Some("t0")
          [] OTHER -> None]

PersonIds == [i \in 1..(MaxPersons + 1) |-> Some("p" \o ToString(i))]

\* a stored relationship a -[r]-> b; a and b index persons, the rest are
\* the relationship's label and properties
MkRel(a, b, st) ==
    [a |-> a, b |-> b, rtype |-> "RELATED_TO", id |-> None, type |-> None,
     description |-> None, strength |-> None, source_type |-> st,
     created_by |-> None, created_at |-> None]

SeqsUpTo(S, n) == UNION {[1..k -> S] : k \in 0..n}

StoredPersons ==
    {ps \in SeqsUpTo(SourceTypes, MaxPersons) : Len(ps) >= 1}

StoredRels(n) ==
    SeqsUpTo((1..n) \X (1..n) \X SourceTypes, MaxRels)

----------------------------------------------------------------------------
(* Credentials: the Authorization header carries a bearer token or is absent *)

Emails == {"ada@x.org", "bob@x.org"}

\* a JWT as jwt.decode sees it: whether the signature verifies under
\* SECRET_KEY, the exp claim and the sub claim (either may be absent)
Tokens ==
    [sig : {"valid", "bad"},
     exp : {None} \cup {Some(t) : t \in 0..MaxTime},
     sub : {None} \cup {Some(e) : e \in Emails}]

Headers == {None} \cup {Some(tk) : tk \in Tokens}

\* the exception classes of jose that derive from JWTError
JWTErrors == {"JWTError", "ExpiredSignatureError", "JWTClaimsError"}

\* a slip of jwt_decode: decoding as get_token_payload does, with
\* options={"verify_exp": False}
jwt_decode_no_exp(token, t) ==
    IF token.sig # "valid"
    THEN [raised |-> "JWTError", sub |-> None]
    ELSE [raised |-> "", sub |-> token.sub]

\* jose.jwt.decode(token, SECRET_KEY, algorithms=[ALGORITHM]): the signature
\* is verified first, then the exp claim against the clock
jwt_decode(token, t) ==
    IF token.sig # "valid"
    THEN [raised |-> "JWTError", sub |-> None]
    ELSE IF token.exp # None /\ token.exp[1] < t
    THEN [raised |-> "ExpiredSignatureError", sub |-> None]
    ELSE [raised |-> "", sub |-> token.sub]

\* verify_token: kind is "data" (a TokenData), "none" (returned None) or
\* "raise" (an exception left the function)
verify_token(token, t) ==
    LET d == jwt_decode(token, t) IN
    IF d.raised \in JWTErrors THEN [kind |-> "none", email |-> None]
    ELSE IF d.raised # "" THEN [kind |-> "raise", email |-> None]
    ELSE IF d.sub = None THEN [kind |-> "none", email |-> None]
    ELSE [kind |-> "data", email |-> d.sub]

\* oauth2_scheme = OAuth2PasswordBearer(tokenUrl=...), auto_error left at its
\* default: a request without a bearer Authorization header is answered 401
\* before the dependant runs
oauth2_scheme(header) ==
    IF header = None
    THEN [status |-> 401, token |-> None]
    ELSE [status |-> 200, token |-> header]

\* get_user_by_email: the row with that email, or None (email is the
\* table's unique key)
get_user_by_email(us, email) ==
    LET rows == SelectSeq(us, LAMBDA u : u.email = email)
    IN IF Len(rows) = 0 THEN None ELSE Some(rows[1])

\* a slip of get_current_user: the is_active check left out
get_current_user_no_active_check(header, us, t) ==
    LET o == oauth2_scheme(header) IN
    IF o.status # 200 THEN [status |-> o.status, user |-> None]
    ELSE LET token_data == verify_token(o.token[1], t) IN
         IF token_data.kind = "raise" THEN [status |-> 500, user |-> None]
         ELSE IF token_data.kind = "none" THEN [status |-> 401, user |-> None]
         ELSE LET user == get_user_by_email(us, token_data.email[1]) IN
              IF user = None THEN [status |-> 404, user |-> None]
              ELSE [status |-> 200, user |-> user]

\* a slip of get_current_user: an unknown subject answered like a bad token
get_current_user_unknown_401(header, us, t) ==
    LET o == oauth2_scheme(header) IN
    IF o.status # 200 THEN [status |-> o.status, user |-> None]
    ELSE LET token_data == verify_token(o.token[1], t) IN
         IF token_data.kind = "raise" THEN [status |-> 500, user |-> None]
         ELSE IF token_data.kind = "none" THEN [status |-> 401, user |-> None]
         ELSE LET user == get_user_by_email(us, token_data.email[1]) IN
              IF user = None THEN [status |-> 401, user |-> None]
              ELSE IF ~user[1].is_active THEN [status |-> 400, user |-> None]
              ELSE [status |-> 200, user |-> user]

\* get_current_user (graph.py, persons.py, users.py hold the same function):
\* status 200 and the user, or the status of the HTTPException raised
get_current_user(header, us, t) ==
    LET o == oauth2_scheme(header) IN
    IF o.status # 200 THEN [status |-> o.status, user |-> None]
    ELSE LET token_data == verify_token(o.token[1], t) IN
         IF token_data.kind = "raise" THEN [status |-> 500, user |-> None]
         ELSE IF token_data.kind = "none" THEN [status |-> 401, user |-> None]
         ELSE LET user == get_user_by_email(us, token_data.email[1]) IN
              IF user = None THEN [status |-> 404, user |-> None]
              ELSE IF ~user[1].is_active THEN [status |-> 400, user |-> None]
              ELSE [status |-> 200, user |-> user]

\* get_current_user_or_none: every failure inside the body yields None; the
\* oauth2_scheme dependency is resolved before the body and is not in its try
get_current_user_or_none(header, us, t) ==
    LET o == oauth2_scheme(header) IN
    IF o.status # 200 THEN [status |-> o.status, user |-> None]
    ELSE LET token_data == verify_token(o.token[1], t) IN
         IF token_data.kind # "data" THEN [status |-> 200, user |-> None]
         ELSE LET user == get_user_by_email(us, token_data.email[1]) IN
              IF user = None \/ ~user[1].is_active
              THEN [status |-> 200, user |-> None]
              ELSE [status |-> 200, user |-> user]

----------------------------------------------------------------------------
(* Cypher's three-valued logic: "T", "F" and "U" (null) *)

And3(x, y) ==
    IF x = "F" \/ y = "F" THEN "F"
    ELSE IF x = "T" /\ y = "T" THEN "T" ELSE "U"

Or3(x, y) ==
    IF x = "T" \/ y = "T" THEN "T"
    ELSE IF x = "F" /\ y = "F" THEN "F" ELSE "U"

\* x IN ['system', 'public']: null when x is null
InPublic3(x) ==
    IF x = None THEN "U"
    ELSE IF x[1] \in {"system", "public"} THEN "T" ELSE "F"

\* x IS NULL
IsNull3(x) == IF x = None THEN "T" ELSE "F"

\* SKIP skip LIMIT limit over the rows a MATCH produced
Page(rows, skip, limit) == SubSeq(rows, skip + 1, Min(Len(rows), skip + limit))

Indices(n) == [i \in 1..n |-> i]

----------------------------------------------------------------------------
(* The queries of /graph/network and /graph/network/optimized *)

\* a slip of the node filter: IS NOT NULL for IS NULL
anon_nodes_where_not_null(p) ==
    Or3(InPublic3(p["source_type"]),
        IF p["source_type"] = None THEN "F" ELSE "T") = "T"

\* WHERE p.source_type IN ['system', 'public'] OR p.source_type IS NULL
anon_nodes_where(p) ==
    Or3(InPublic3(p["source_type"]), IsNull3(p["source_type"])) = "T"

\* WHERE a.source_type IN [...] OR a.source_type IS NULL
\*   AND b.source_type IN [...] OR b.source_type IS NULL
\*   AND (r.source_type IN [...] OR r.source_type IS NULL)
\* with Cypher's precedence: AND binds tighter than OR
anon_edges_where(a, b, r) ==
    Or3(Or3(InPublic3(a["source_type"]),
            And3(IsNull3(a["source_type"]), InPublic3(b["source_type"]))),
        And3(IsNull3(b["source_type"]),
             Or3(InPublic3(r.source_type), IsNull3(r.source_type)))) = "T"

\* a slip of nodes_query: the branches of "if current_user is None" swapped
nodes_query_swapped(current_user, ps, skip, limit) ==
    LET matched == SelectSeq(Indices(Len(ps)),
                       LAMBDA i : current_user = None \/ anon_nodes_where(ps[i]))
    IN Page(matched, skip, limit)

\* nodes_query: the indices of the Person nodes the store returns
nodes_query(current_user, ps, skip, limit) ==
    LET matched == SelectSeq(Indices(Len(ps)),
                       LAMBDA i : current_user # None \/ anon_nodes_where(ps[i]))
    IN Page(matched, skip, limit)

\* edges_query: the indices of the relationships the store returns; each
\* record carries a.id as source_id, b.id as target_id and r
edges_query(current_user, ps, rs, skip, limit) ==
    LET matched == SelectSeq(Indices(Len(rs)),
                       LAMBDA i : current_user # None
                                  \/ anon_edges_where(ps[rs[i].a], ps[rs[i].b], rs[i]))
    IN Page(matched, skip, limit)

----------------------------------------------------------------------------
(* Response shaping *)

\* the literal of graph.py:246 and entity.py:250 (U+672A U+77E5, "unknown")
\* and of entity.py:246 (U+81F3 U+4ECA, "until now"), spelled in ASCII
WeiZhi == "weizhi"
ZhiJin == "zhijin"

\* uuid.uuid4(): an opaque fresh string
Uuid4 == "uuid4"

\* name.lower().replace(' ', '-') on the names of the model
Slug(name) ==
    CASE name = "Ada" -> "ada"
      [] name = "Ada L" -> "ada-l"
      [] OTHER -> name

GraphNodeProps == PersonFields \ {"id"}

\* the properties dict of a GraphNode: the stored properties verbatim,
\* is_verified defaulting to False
node_properties(p) ==
    [f \in GraphNodeProps |->
        IF f = "is_verified" THEN Some(GetOr(p[f], FALSE)) ELSE p[f]]

\* the GraphNode /graph/network builds for record i (enumerate index) of
\* nodes_result: label and id never None
network_node(i, p) ==
    LET name == p["name"]
        label == IF name # None THEN name ELSE Some(WeiZhi)
        node_id ==
            IF p["id"] # None THEN p["id"]
            ELSE IF name # None /\ name[1] # ""
            THEN Some(Slug(name[1]) \o "-" \o Uuid4)
            ELSE Some("node-" \o ToString(i) \o "-" \o Uuid4)
    IN [id |-> node_id, label |-> label, type |-> "person",
        properties |-> node_properties(p)]

\* the GraphEdge /graph/edges and /graph/network build for record i
network_edge(i, source_id, target_id, r) ==
    [id |-> Some(GetOr(r.id, Uuid4)),
     source |-> IF source_id = None
                THEN Some("source-" \o ToString(i) \o "-" \o Uuid4)
                ELSE source_id,
     target |-> IF target_id = None
                THEN Some("target-" \o ToString(i) \o "-" \o Uuid4)
                ELSE target_id,
     label |-> Some(GetOr(r.type, "RELATED_TO")),
     type |-> "relates_to",
     properties |->
        [type |-> Some(GetOr(r.type, "RELATED_TO")),
         description |-> r.description,
         strength |-> Some(GetOr(r.strength, 1)),
         source_type |-> Some(GetOr(r.source_type, "user_created")),
         created_by |-> r.created_by,
         created_at |-> r.created_at]]

\* Python truthiness of an optional int and of an optional list
TruthyInt(x) == x # None /\ x[1] # 0
TruthyList(x) == x # None /\ Len(x[1]) > 0

\* OptimizedPersonNode.from_neo4j_node(person_data)
from_neo4j_node(person_data) ==
    LET specialty == person_data["specialty"]
        industry == IF TruthyList(specialty) THEN Some(specialty[1][1]) ELSE None
        occupation_data == person_data["occupation"]
        occupation == IF TruthyList(occupation_data)
                      THEN Some(occupation_data[1][1]) ELSE None
        birth_year == person_data["birth_year"]
        death_year == person_data["death_year"]
        years == IF TruthyInt(birth_year) /\ TruthyInt(death_year)
                 THEN Some(ToString(birth_year[1]) \o "-" \o ToString(death_year[1]))
                 ELSE IF TruthyInt(birth_year)
                 THEN Some(ToString(birth_year[1]) \o "-" \o ZhiJin)
                 ELSE None
    IN [id |-> Some(GetOr(person_data["id"], Uuid4)),
        name |-> Some(GetOr(person_data["name"], WeiZhi)),
        birth_year |-> birth_year,
        death_year |-> death_year,
        industry |-> industry,
        occupation |-> occupation,
        achievement |-> person_data["achievement"],
        description |-> person_data["description"],
        source_type |-> Some(GetOr(person_data["source_type"], "system")),
        type |-> person_data["type"],
        years |-> years,
        created_by |-> person_data["created_by"],
        is_verified |-> Some(GetOr(person_data["is_verified"], FALSE)),
        created_at |-> person_data["created_at"]]

\* the element id the driver gives the i-th stored node
element_id(i) == Some("4:db:" \o ToString(i))

\* the optimized endpoints turn a driver Node into a dict: its properties,
\* with id replaced by the node's element id
node_to_dict(i, p) == [p EXCEPT !["id"] = element_id(i)]

\* OptimizedGraphEdge.from_neo4j_relationship(rel_data, source_id, target_id)
\* on a driver Relationship: id is its element id, type its label
from_neo4j_relationship(i, r, source_id, target_id) ==
    [id |-> Some("5:db:" \o ToString(i)),
     source |-> source_id,
     target |-> target_id,
     label |-> Some(r.rtype),
     strength |-> Some(GetOr(r.strength, 1)),
     description |-> r.description]

\* Python truthiness of an optional string (if source_id and target_id)
TruthyStr(x) == x # None /\ x[1] # ""

----------------------------------------------------------------------------
(* Responses *)

\* what a handler leaves behind: the status, how the caller was classified,
\* the graph-store queries issued, the raw records and the shaped body
BaseResp(endpoint, header, params) ==
    [endpoint |-> endpoint, header |-> header, params |-> params,
     status |-> 0, caller |-> "", queries |-> << >>,
     nodes_result |-> << >>, edges_result |-> << >>,
     nodes |-> << >>, edges |-> << >>, body |-> << >>]

\* the dependency raised: the handler body never ran
Rejected(endpoint, header, params, status) ==
    [BaseResp(endpoint, header, params) EXCEPT
        !.status = status, !.caller = "rejected"]

Caller(current_user) ==
    IF current_user = None THEN "anonymous" ELSE "authenticated"

NetworkParams(skip_nodes, limit_nodes, skip_edges, limit_edges) ==
    [skip_nodes |-> skip_nodes, limit_nodes |-> limit_nodes,
     skip_edges |-> skip_edges, limit_edges |-> limit_edges]

----------------------------------------------------------------------------
(* GET /graph/network *)

network_response(header, current_user, ps, rs, params) ==
    LET nodes_result == nodes_query(current_user, ps,
                                    params.skip_nodes, params.limit_nodes)
        edges_result == edges_query(current_user, ps, rs,
                                    params.skip_edges, params.limit_edges)
    IN [BaseResp("/graph/network", header, params) EXCEPT
          !.status = 200,
          !.caller = Caller(current_user),
          !.queries = <<"nodes_query", "edges_query">>,
          !.nodes_result = nodes_result,
          !.edges_result = edges_result,
          !.nodes = [k \in 1..Len(nodes_result) |->
                        network_node(k - 1, ps[nodes_result[k]])],
          !.edges = [k \in 1..Len(edges_result) |->
                        LET r == rs[edges_result[k]] IN
                        network_edge(k - 1, ps[r.a]["id"], ps[r.b]["id"], r)]]

get_graph_network(header, skip_nodes, limit_nodes, skip_edges, limit_edges) ==
    LET params == NetworkParams(skip_nodes, limit_nodes, skip_edges, limit_edges)
        auth == get_current_user_or_none(header, users, now)
    IN /\ resp' = IF auth.status # 200
                  THEN Rejected("/graph/network", header, params, auth.status)
                  ELSE network_response(header, auth.user, persons, rels, params)
       /\ served' = served + 1
       /\ UNCHANGED <<persons, rels, users, now, inflight>>

----------------------------------------------------------------------------
(* GET /graph/network/optimized *)

optimized_response(header, current_user, ps, rs, params) ==
    LET nodes_result == nodes_query(current_user, ps,
                                    params.skip_nodes, params.limit_nodes)
        edges_result == edges_query(current_user, ps, rs,
                                    params.skip_edges, params.limit_edges)
        \* only the records whose source_id and target_id are truthy
        kept == SelectSeq(edges_result,
                    LAMBDA i : TruthyStr(ps[rs[i].a]["id"])
                               /\ TruthyStr(ps[rs[i].b]["id"]))
    IN [BaseResp("/graph/network/optimized", header, params) EXCEPT
          !.status = 200,
          !.caller = Caller(current_user),
          !.queries = <<"nodes_query", "edges_query">>,
          !.nodes_result = nodes_result,
          !.edges_result = kept,
          !.nodes = [k \in 1..Len(nodes_result) |->
                        from_neo4j_node(node_to_dict(nodes_result[k],
                                                     ps[nodes_result[k]]))],
          !.edges = [k \in 1..Len(kept) |->
                        LET r == rs[kept[k]] IN
                        from_neo4j_relationship(kept[k], r,
                                                ps[r.a]["id"], ps[r.b]["id"])]]

get_optimized_graph_network(header, skip_nodes, limit_nodes, skip_edges, limit_edges) ==
    LET params == NetworkParams(skip_nodes, limit_nodes, skip_edges, limit_edges)
        auth == get_current_user_or_none(header, users, now)
    IN /\ resp' = IF auth.status # 200
                  THEN Rejected("/graph/network/optimized", header, params, auth.status)
                  ELSE optimized_response(header, auth.user, persons, rels, params)
       /\ served' = served + 1
       /\ UNCHANGED <<persons, rels, users, now, inflight>>

----------------------------------------------------------------------------
(* SpecGraph: a stored graph and a request to one of the network endpoints.  *)
(* The endpoints only read, so every request meets the graph as Init drew    *)
(* it; a behaviour is one stored graph and one request against it.           *)

MkUser(email, active) ==
    [email |-> email, is_active |-> active,
     neo4j_person_id |-> None, is_in_graph |-> FALSE]

ValidToken(email) == [sig |-> "valid", exp |-> Some(MaxTime), sub |-> Some(email)]

\* the page windows requests ask for: SKIP 0 or 1, LIMIT 1 or the default
Skips == {0, 1}
Limits == {1, DefaultLimit}

GraphHeaders ==
    {Some(ValidToken("ada@x.org")),
     Some([ValidToken("ada@x.org") EXCEPT !.sig = "bad"])}

InitGraph ==
    /\ \E sts \in StoredPersons :
          /\ persons = [i \in 1..Len(sts) |-> MkPerson(PersonIds[i], sts[i])]
          /\ \E es \in StoredRels(Len(sts)) :
                rels = [i \in 1..Len(es) |-> MkRel(es[i][1], es[i][2], es[i][3])]
    /\ users = <<MkUser("ada@x.org", TRUE)>>
    /\ now = 0
    /\ served = 0
    /\ inflight = << >>
    /\ resp = BaseResp("", None, << >>)

\* the node window and the edge window of a request are drawn together: the
\* two queries of a handler do not depend on each other
GraphNetworkRequest ==
    \E header \in GraphHeaders, skip \in Skips, limit \in Limits :
       /\ served = 0
       /\ get_graph_network(header, skip, limit, skip, limit)

OptimizedNetworkRequest ==
    \E header \in GraphHeaders, skip \in Skips, limit \in Limits :
       /\ served = 0
       /\ get_optimized_graph_network(header, skip, limit, skip, limit)

NextGraph == GraphNetworkRequest \/ OptimizedNetworkRequest

SpecGraph == InitGraph /\ [][NextGraph]_vars

----------------------------------------------------------------------------
(* Visibility of the network endpoints to anonymous callers *)

Range(seq) == {seq[k] : k \in 1..Len(seq)}

NetworkEndpoints == {"/graph/network", "/graph/network/optimized"}

PublicOrAbsent == {None, Some("system"), Some("public")}

AnonymousNetworkResp ==
    /\ resp.endpoint \in NetworkEndpoints
    /\ resp.status = 200
    /\ resp.caller = "anonymous"

\* C1: every Person node a network endpoint returns to an anonymous caller
\* is stored with source_type 'system' or 'public' or with no source_type;
\* a 'user_created' node is never returned.
C1_AnonymousNodesPublic ==
    AnonymousNetworkResp =>
        \A i \in Range(resp.nodes_result) :
            persons[i]["source_type"] \in PublicOrAbsent

\* an anonymous caller got a node out of a graph that also holds a
\* 'user_created' node
C1_Witness ==
    /\ AnonymousNetworkResp
    /\ Len(resp.nodes_result) >= 1
    /\ \E i \in 1..Len(persons) : persons[i]["source_type"] = Some("user_created")

\* C2: an edge is returned to an anonymous caller only if its source node,
\* its target node and the relationship itself are all public or untagged.
C2_AnonymousEdgesPublic ==
    AnonymousNetworkResp =>
        \A i \in Range(resp.edges_result) :
            /\ persons[rels[i].a]["source_type"] \in PublicOrAbsent
            /\ persons[rels[i].b]["source_type"] \in PublicOrAbsent
            /\ rels[i].source_type \in PublicOrAbsent

\* C3: the source_type /graph/network reports for a relationship to an
\* anonymous caller is 'system', 'public' or null, never 'user_created'.
C3_AnonymousEdgeSourceTypeReported ==
    (AnonymousNetworkResp /\ resp.endpoint = "/graph/network") =>
        \A k \in 1..Len(resp.edges) :
            resp.edges[k].properties.source_type \in PublicOrAbsent

\* what /graph/network answers an authenticated caller for the same stored
\* graph and the same pagination parameters
AuthenticatedTwin ==
    network_response(resp.header, Some(MkUser("ada@x.org", TRUE)),
                     persons, rels, resp.params)

\* C4 as stated: with the same pagination parameters, the authenticated
\* answer of /graph/network contains every node and edge of the anonymous one.
C4_AuthenticatedSupersetAnyPage ==
    (AnonymousNetworkResp /\ resp.endpoint = "/graph/network") =>
        /\ Range(resp.nodes_result) \subseteq Range(AuthenticatedTwin.nodes_result)
        /\ Range(resp.edges_result) \subseteq Range(AuthenticatedTwin.edges_result)

\* C4 amended: when the page covers the whole stored collection (skip 0 and
\* a limit of at least the number of stored nodes, respectively edges), the
\* authenticated answer contains every node, respectively edge, of the
\* anonymous one.
C4_AuthenticatedSupersetWholePage ==
    (AnonymousNetworkResp /\ resp.endpoint = "/graph/network") =>
        /\ (resp.params.skip_nodes = 0 /\ resp.params.limit_nodes >= Len(persons))
              => Range(resp.nodes_result) \subseteq Range(AuthenticatedTwin.nodes_result)
        /\ (resp.params.skip_edges = 0 /\ resp.params.limit_edges >= Len(rels))
              => Range(resp.edges_result) \subseteq Range(AuthenticatedTwin.edges_result)

\* an anonymous whole-graph page that returned a node and an edge while the
\* authenticated answer holds a node more
C4_Witness ==
    /\ AnonymousNetworkResp /\ resp.endpoint = "/graph/network"
    /\ resp.params.skip_nodes = 0 /\ resp.params.limit_nodes >= Len(persons)
    /\ resp.params.skip_edges = 0 /\ resp.params.limit_edges >= Len(rels)
    /\ Len(resp.nodes_result) >= 1 /\ Len(resp.edges_result) >= 1
    /\ Len(AuthenticatedTwin.nodes_result) > Len(resp.nodes_result)

----------------------------------------------------------------------------
(* GET /graph/nodes and GET /graph/edges *)

\* GraphNode(id=person_data.get("id"), label=person_data.get("name"), ...)
plain_node(p) ==
    [id |-> p["id"], label |-> p["name"], type |-> "person",
     properties |-> node_properties(p)]

\* pydantic accepts a GraphNode only with id: str and label: str
GraphNodeValid(n) == n.id # None /\ n.label # None

\* the answer of a node-list handler: a validation error inside the try
\* block becomes a 500
node_list_response(base, query, nodes_result, ps) ==
    LET nodes == [k \in 1..Len(nodes_result) |-> plain_node(ps[nodes_result[k]])]
    IN IF \A k \in 1..Len(nodes) : GraphNodeValid(nodes[k])
       THEN [base EXCEPT !.status = 200, !.caller = "authenticated",
                         !.queries = <<query>>,
                         !.nodes_result = nodes_result, !.nodes = nodes]
       ELSE [base EXCEPT !.status = 500, !.caller = "authenticated",
                         !.queries = <<query>>,
                         !.nodes_result = nodes_result]

PageParams(skip, limit) == [skip |-> skip, limit |-> limit]

get_graph_nodes(header, skip, limit) ==
    LET base == BaseResp("/graph/nodes", header, PageParams(skip, limit))
        auth == get_current_user(header, users, now)
    IN /\ resp' = IF auth.status # 200
                  THEN Rejected("/graph/nodes", header, PageParams(skip, limit),
                                auth.status)
                  ELSE node_list_response(base, "nodes_query",
                           Page(Indices(Len(persons)), skip, limit), persons)
       /\ served' = served + 1
       /\ UNCHANGED <<persons, rels, users, now, inflight>>

get_graph_edges(header, skip, limit) ==
    LET base == BaseResp("/graph/edges", header, PageParams(skip, limit))
        auth == get_current_user(header, users, now)
        edges_result == Page(Indices(Len(rels)), skip, limit)
    IN /\ resp' = IF auth.status # 200
                  THEN Rejected("/graph/edges", header, PageParams(skip, limit),
                                auth.status)
                  ELSE [base EXCEPT
                          !.status = 200, !.caller = "authenticated",
                          !.queries = <<"edges_query">>,
                          !.edges_result = edges_result,
                          !.edges = [k \in 1..Len(edges_result) |->
                                LET r == rels[edges_result[k]] IN
                                network_edge(k - 1, persons[r.a]["id"],
                                             persons[r.b]["id"], r)]]
       /\ served' = served + 1
       /\ UNCHANGED <<persons, rels, users, now, inflight>>

----------------------------------------------------------------------------
(* GET /graph/nodes/search and GET /graph/nodes/search/optimized *)

\* the strings of the model as character sequences
Chars(str) ==
    CASE str = "Ada" -> <<"A", "d", "a">>
      [] str = "ada" -> <<"a", "d", "a">>
      [] str = "User" -> <<"U", "s", "e", "r">>
      [] str = "user" -> <<"u", "s", "e", "r">>
      [] str = "DA" -> <<"D", "A">>
      [] str = "x" -> <<"x">>
      [] str = "A" -> <<"A">>
      [] str = "USER" -> <<"U", "S", "E", "R">>
      [] OTHER -> << >>

\* toLower on a character
LowerChar(c) ==
    CASE c = "A" -> "a" [] c = "D" -> "d" [] c = "U" -> "u"
      [] c = "S" -> "s" [] c = "E" -> "e" [] c = "R" -> "r" [] OTHER -> c

toLower(cs) == [k \in 1..Len(cs) |-> LowerChar(cs[k])]

\* text CONTAINS part, on character sequences
Contains(text, part) ==
    \E k \in 0..(Len(text) - Len(part)) :
        \A j \in 1..Len(part) : text[k + j] = part[j]

\* toLower(prop) CONTAINS toLower($query): null when the property is null
Contains3(prop, q) ==
    IF prop = None THEN "U"
    ELSE IF Contains(toLower(Chars(prop[1])), toLower(Chars(q))) THEN "T" ELSE "F"

\* list[0] in Cypher: null for a null list and out of range
Head3(list) == IF list = None \/ Len(list[1]) = 0 THEN None ELSE Some(list[1][1])

\* a slip of search_where: ANY(x IN p.occupation ...) instead of the first
\* element
search_where_any_element(p, q) ==
    \/ \E f \in {"name", "achievement", "description", "type"} :
          Contains3(p[f], q) = "T"
    \/ \E f \in {"occupation", "specialty", "hobby"} :
          /\ p[f] # None
          /\ \E k \in 1..Len(p[f][1]) : Contains3(Some(p[f][1][k]), q) = "T"

\* the WHERE clause of both search queries
search_where(p, q) ==
    Or3(Contains3(p["name"], q),
    Or3(Contains3(Head3(p["occupation"]), q),
    Or3(Contains3(Head3(p["specialty"]), q),
    Or3(Contains3(Head3(p["hobby"]), q),
    Or3(Contains3(p["achievement"], q),
    Or3(Contains3(p["description"], q),
        Contains3(p["type"], q))))))) = "T"

\* LIMIT 50 of the search queries
SearchLimit == 50

search_query(ps, q) ==
    Page(SelectSeq(Indices(Len(ps)), LAMBDA i : search_where(ps[i], q)),
         0, SearchLimit)

search_graph_nodes(header, q) ==
    LET base == BaseResp("/graph/nodes/search", header, [q |-> q])
        auth == get_current_user(header, users, now)
    IN /\ resp' = IF auth.status # 200
                  THEN Rejected("/graph/nodes/search", header, [q |-> q], auth.status)
                  ELSE node_list_response(base, "search_query",
                                          search_query(persons, q), persons)
       /\ served' = served + 1
       /\ UNCHANGED <<persons, rels, users, now, inflight>>

search_optimized_graph_nodes(header, q) ==
    LET base == BaseResp("/graph/nodes/search/optimized", header, [q |-> q])
        auth == get_current_user(header, users, now)
        result == search_query(persons, q)
    IN /\ resp' = IF auth.status # 200
                  THEN Rejected("/graph/nodes/search/optimized", header,
                                [q |-> q], auth.status)
                  ELSE [base EXCEPT
                          !.status = 200, !.caller = "authenticated",
                          !.queries = <<"search_query">>,
                          !.nodes_result = result,
                          !.nodes = [k \in 1..Len(result) |->
                                from_neo4j_node(node_to_dict(result[k],
                                                             persons[result[k]]))]]
       /\ served' = served + 1
       /\ UNCHANGED <<persons, rels, users, now, inflight>>

----------------------------------------------------------------------------
(* GET /graph/nodes/{node_id}/connections *)

\* LIMIT 10 of the connections queries
ConnectionsLimit == 10

\* WHERE p.source_type IN [...] OR p.source_type IS NULL
\*   AND other.source_type IN [...] OR other.source_type IS NULL
anon_connections_where(p, other) ==
    Or3(Or3(InPublic3(p["source_type"]),
            And3(IsNull3(p["source_type"]), InPublic3(other["source_type"]))),
        IsNull3(other["source_type"])) = "T"

\* a slip of connection_rows: the pattern without the RELATED_TO label
connection_rows_any_type(ps, rs, node_id) ==
    LET Row(i) ==
            (IF ps[rs[i].a]["id"] = Some(node_id)
             THEN << <<i, rs[i].a, rs[i].b>> >> ELSE << >>)
            \o (IF ps[rs[i].b]["id"] = Some(node_id) /\ rs[i].a # rs[i].b
                THEN << <<i, rs[i].b, rs[i].a>> >> ELSE << >>)
        Rows[k \in 0..Len(rs)] == IF k = 0 THEN << >> ELSE Rows[k - 1] \o Row(k)
    IN Rows[Len(rs)]

\* the rows of MATCH (p:Person {id: $node_id})-[r:RELATED_TO]-(other:Person):
\* <<index of r, index of p, index of other>>, r matching in either direction
connection_rows(ps, rs, node_id) ==
    LET Row(i) ==
            IF rs[i].rtype # "RELATED_TO" THEN << >>
            ELSE (IF ps[rs[i].a]["id"] = Some(node_id)
                  THEN << <<i, rs[i].a, rs[i].b>> >> ELSE << >>)
                 \o (IF ps[rs[i].b]["id"] = Some(node_id) /\ rs[i].a # rs[i].b
                     THEN << <<i, rs[i].b, rs[i].a>> >> ELSE << >>)
        Rows[k \in 0..Len(rs)] == IF k = 0 THEN << >> ELSE Rows[k - 1] \o Row(k)
    IN Rows[Len(rs)]

connections_query(current_user, ps, rs, node_id) ==
    LET matched == SelectSeq(connection_rows(ps, rs, node_id),
                       LAMBDA row : current_user # None
                                    \/ anon_connections_where(ps[row[2]], ps[row[3]]))
    IN Page(matched, 0, ConnectionsLimit)

\* FastAPI serialises the returned value through response_model: a value
\* that is not of the declared kind is a response validation error, a 500
response_model_status(declared, returned) ==
    IF declared = returned THEN 200 ELSE 500

get_node_connections(header, node_id) ==
    LET base == BaseResp("/graph/nodes/{node_id}/connections", header,
                         [node_id |-> node_id])
        auth == get_current_user_or_none(header, users, now)
        result == connections_query(auth.user, persons, rels, node_id)
        connections == [k \in 1..Len(result) |->
                           [target_id |-> persons[result[k][3]]["id"],
                            strength |-> rels[result[k][1]].strength,
                            description |-> rels[result[k][1]].description]]
    IN /\ resp' = IF auth.status # 200
                  THEN Rejected("/graph/nodes/{node_id}/connections", header,
                                [node_id |-> node_id], auth.status)
                  ELSE [base EXCEPT
                          \* response_model=List[dict]; the handler returns
                          \* the dict {"connections": connections}
                          !.status = response_model_status("list", "dict"),
                          !.caller = Caller(auth.user),
                          !.queries = <<"connections_query">>,
                          !.edges_result = result,
                          !.body = [connections |-> connections]]
       /\ served' = served + 1
       /\ UNCHANGED <<persons, rels, users, now, inflight>>

----------------------------------------------------------------------------
(* /persons *)

\* PersonResponse (PersonInDB) requires id, name and source_type as str and
\* created_at as datetime; a None there is a validation error
PersonResponseValid(p) ==
    /\ p["id"] # None /\ p["name"] # None
    /\ p["source_type"] # None /\ p["created_at"] # None

\* PersonResponse built from a stored node
person_response(p) ==
    [f \in PersonFields |->
        IF f = "is_verified" THEN Some(GetOr(p[f], FALSE)) ELSE p[f]]

\* the indices of MATCH (p:Person {id: $id})
match_person(ps, person_id) ==
    SelectSeq(Indices(Len(ps)), LAMBDA i : ps[i]["id"] = Some(person_id))

\* the fields of a PersonCreate body other than name
CreateFields == PersonFields \ {"id", "created_at"}

\* POST /persons/: the node is written with a fresh id and with created_by
\* taken from the authenticated user
create_person(header, person_data) ==
    LET base == BaseResp("POST /persons/", header, person_data)
        auth == get_current_user(header, users, now)
        current_user == auth.user[1]
        person_id == PersonIds[Len(persons) + 1]
        node == [f \in PersonFields |->
                    CASE f = "id" -> person_id
                      [] f = "created_by" -> Some(current_user.email)
                      [] f = "created_at" -> Some("t" \o ToString(now))
                      [] OTHER -> person_data[f]]
    IN /\ Len(persons) < Len(PersonIds)
       /\ IF auth.status # 200
          THEN /\ resp' = Rejected("POST /persons/", header, person_data, auth.status)
               /\ UNCHANGED <<persons, users>>
          ELSE /\ persons' = Append(persons, node)
               /\ users' = IF current_user.neo4j_person_id = None
                           THEN [k \in 1..Len(users) |->
                                   IF users[k].email = current_user.email
                                   THEN [users[k] EXCEPT
                                           !.neo4j_person_id = person_id,
                                           !.is_in_graph = TRUE]
                                   ELSE users[k]]
                           ELSE users
               /\ resp' = [base EXCEPT
                             !.status = 201, !.caller = "authenticated",
                             !.queries = <<"create_query">>,
                             !.body = person_response(node)]
       /\ served' = served + 1
       /\ UNCHANGED <<rels, now, inflight>>

\* GET /persons/
get_persons(header, skip, limit) ==
    LET base == BaseResp("GET /persons/", header, PageParams(skip, limit))
        auth == get_current_user(header, users, now)
        result == Page(Indices(Len(persons)), skip, limit)
    IN /\ resp' =
            IF auth.status # 200
            THEN Rejected("GET /persons/", header, PageParams(skip, limit),
                          auth.status)
            ELSE IF \A k \in 1..Len(result) : PersonResponseValid(persons[result[k]])
            THEN [base EXCEPT
                    !.status = 200, !.caller = "authenticated",
                    !.queries = <<"persons_query">>,
                    !.nodes_result = result,
                    !.body = [k \in 1..Len(result) |->
                                 person_response(persons[result[k]])]]
            ELSE [base EXCEPT !.status = 500, !.caller = "authenticated",
                              !.queries = <<"persons_query">>]
       /\ served' = served + 1
       /\ UNCHANGED <<persons, rels, users, now, inflight>>

\* what get_person answers for the rows of its query: 404 without a row,
\* else the first row as a PersonResponse
fetch_response(base, query, result, ps) ==
    IF Len(result) = 0
    THEN [base EXCEPT !.status = 404, !.caller = "authenticated",
                      !.queries = <<query>>]
    ELSE IF PersonResponseValid(ps[result[1]])
    THEN [base EXCEPT !.status = 200, !.caller = "authenticated",
                      !.queries = <<query>>,
                      !.nodes_result = <<result[1]>>,
                      !.body = person_response(ps[result[1]])]
    ELSE [base EXCEPT !.status = 500, !.caller = "authenticated",
                      !.queries = <<query>>]

\* GET /persons/{person_id}; the route is registered before GET /persons/me,
\* so the path /persons/me reaches this handler with person_id = "me"
get_person(header, person_id) ==
    LET base == BaseResp("GET /persons/{person_id}", header,
                         [person_id |-> person_id])
        auth == get_current_user(header, users, now)
    IN /\ resp' = IF auth.status # 200
                  THEN Rejected("GET /persons/{person_id}", header,
                                [person_id |-> person_id], auth.status)
                  ELSE fetch_response(base, "person_query",
                                      match_person(persons, person_id), persons)
       /\ served' = served + 1
       /\ UNCHANGED <<persons, rels, users, now, inflight>>

\* the fields of PersonUpdate
UpdateFields ==
    {"name", "birth_year", "death_year", "occupation", "specialty", "hobby",
     "achievement", "female_experience", "type", "frequency", "degree",
     "description", "human_readable_id", "knowledge_source", "is_verified"}

\* the request body of PUT /persons/{person_id} is a JSON object; pydantic
\* builds the PersonUpdate from it: a key that is absent and a key whose
\* value is null both give None (here: json maps the keys present to their
\* values, None for null)
parse_person_update(json) ==
    [f \in UpdateFields |-> IF f \in DOMAIN json THEN json[f] ELSE None]

\* Python truthiness of a PersonUpdate field
TruthyField(f, x) ==
    /\ x # None
    /\ CASE f \in {"birth_year", "death_year", "frequency", "degree"} -> x[1] # 0
         [] f \in {"occupation", "specialty", "hobby", "female_experience"} ->
               Len(x[1]) > 0
         [] f = "is_verified" -> x[1]
         [] OTHER -> x[1] # ""

\* a slip of update_fields: the "is not None" tests left out
update_fields_all(person_data) == UpdateFields

\* update_fields: the fields of the body that are not None
update_fields(person_data) == {f \in UpdateFields : person_data[f] # None}

\* a slip of apply_update: SET p = $props, a full replace of the updatable
\* fields
apply_update_replace(ps, person_id, person_data) ==
    [i \in 1..Len(ps) |->
        IF ps[i]["id"] = Some(person_id)
        THEN [f \in PersonFields |->
                 IF f \in UpdateFields THEN person_data[f] ELSE ps[i][f]]
        ELSE ps[i]]

\* SET p.f = $f for every field of update_fields, on every matched node
apply_update(ps, person_id, person_data) ==
    [i \in 1..Len(ps) |->
        IF ps[i]["id"] = Some(person_id)
        THEN [f \in PersonFields |->
                 IF f \in update_fields(person_data) THEN person_data[f]
                 ELSE ps[i][f]]
        ELSE ps[i]]

\* PUT /persons/{person_id}. failing is the query the graph store fails at:
\* 0 for none, 1 for the existence check, 2 for the update
update_person(header, person_id, person_data, failing) ==
    LET params == [person_id |-> person_id, person_data |-> person_data,
                   failing |-> failing]
        base == [BaseResp("PUT /persons/{person_id}", header, params)
                    EXCEPT !.caller = "authenticated"]
        auth == get_current_user(header, users, now)
        result == match_person(persons, person_id)
        updated == apply_update(persons, person_id, person_data)
    IN /\ IF auth.status # 200
          THEN /\ resp' = Rejected("PUT /persons/{person_id}", header, params,
                                   auth.status)
               /\ UNCHANGED persons
          ELSE IF failing = 1
          THEN /\ resp' = [base EXCEPT !.status = 500,
                                       !.queries = <<"check_query">>]
               /\ UNCHANGED persons
          ELSE IF Len(result) = 0
          THEN /\ resp' = [base EXCEPT !.status = 404,
                                       !.queries = <<"check_query">>]
               /\ UNCHANGED persons
          ELSE IF update_fields(person_data) = {}
          THEN /\ resp' = [base EXCEPT !.status = 400,
                                       !.queries = <<"check_query">>]
               /\ UNCHANGED persons
          ELSE IF failing = 2
          THEN /\ resp' = [base EXCEPT !.status = 500,
                                       !.queries = <<"check_query", "update_query">>]
               /\ UNCHANGED persons
          ELSE /\ persons' = updated
               /\ resp' = [fetch_response(base, "check_query", result, updated)
                             EXCEPT !.queries = <<"check_query", "update_query">>]
       /\ served' = served + 1
       /\ UNCHANGED <<rels, users, now, inflight>>

\* a slip of put_person: falsy values of the body are dropped like nulls
put_person_truthy(header, person_id, json, failing) ==
    update_person(header, person_id,
                  [f \in UpdateFields |->
                      IF TruthyField(f, parse_person_update(json)[f])
                      THEN json[f] ELSE None],
                  failing)

\* PUT /persons/{person_id} from the JSON body of the request
put_person(header, person_id, json, failing) ==
    update_person(header, person_id, parse_person_update(json), failing)

----------------------------------------------------------------------------
(* /users *)

\* GET /users/me
read_users_me(header) ==
    LET auth == get_current_user(header, users, now)
    IN /\ resp' = IF auth.status # 200
                  THEN Rejected("/users/me", header, << >>, auth.status)
                  ELSE [BaseResp("/users/me", header, << >>) EXCEPT
                          !.status = 200, !.caller = "authenticated",
                          !.body = auth.user[1]]
       /\ served' = served + 1
       /\ UNCHANGED <<persons, rels, users, now, inflight>>

\* GET /users/: select(User).offset(skip).limit(limit)
read_users(header, skip, limit) ==
    LET auth == get_current_user(header, users, now)
    IN /\ resp' = IF auth.status # 200
                  THEN Rejected("/users/", header, PageParams(skip, limit),
                                auth.status)
                  ELSE [BaseResp("/users/", header, PageParams(skip, limit)) EXCEPT
                          !.status = 200, !.caller = "authenticated",
                          !.queries = <<"users_list">>,
                          !.body = Page(users, skip, limit)]
       /\ served' = served + 1
       /\ UNCHANGED <<persons, rels, users, now, inflight>>

----------------------------------------------------------------------------
(* SpecAuth: every endpoint under every credential. Init draws the users    *)
(* table and the clock; the graph is a fixed sample. A behaviour is one     *)
(* request, so that what a request finds is what Init drew.                 *)

\* the users table: each email is absent, active or inactive
UserTables ==
    {SelectSeq(<<[email |-> "ada@x.org", row |-> ra], [email |-> "bob@x.org", row |-> rb]>>,
               LAMBDA e : e.row # "absent")
        : ra \in {"absent", "active", "inactive"},
          rb \in {"absent", "active", "inactive"}}

SamplePersons ==
    <<MkPerson(PersonIds[1], Some("system")),
      MkPerson(PersonIds[2], Some("user_created"))>>

SampleRels == <<MkRel(1, 2, None)>>

\* a PersonCreate body
SampleCreate ==
    [f \in CreateFields |->
        CASE f = "name" -> Some("Ada")
          [] f = "source_type" -> Some("user_created")
          [] f = "is_verified" -> Some(FALSE)
          [] OTHER -> None]

\* PersonUpdate bodies: no field, and name alone
EmptyUpdate == [f \in UpdateFields |-> None]
SampleUpdates == {EmptyUpdate, [EmptyUpdate EXCEPT !["name"] = Some("DA")]}

InitAuth ==
    /\ persons = SamplePersons
    /\ rels = SampleRels
    /\ \E t \in UserTables :
          users = [k \in 1..Len(t) |-> MkUser(t[k].email, t[k].row = "active")]
    /\ now \in 0..MaxTime
    /\ served = 0
    /\ inflight = << >>
    /\ resp = BaseResp("", None, << >>)

AuthGraphNetwork ==
    \E header \in Headers :
        served = 0 /\ get_graph_network(header, 0, DefaultLimit, 0, DefaultLimit)

AuthOptimizedNetwork ==
    \E header \in Headers :
        served = 0 /\ get_optimized_graph_network(header, 0, DefaultLimit, 0, DefaultLimit)

AuthNodeConnections ==
    \E header \in Headers, node_id \in {"p1", "p2"} :
        served = 0 /\ get_node_connections(header, node_id)

AuthGraphNodes ==
    \E header \in Headers : served = 0 /\ get_graph_nodes(header, 0, DefaultLimit)

AuthGraphEdges ==
    \E header \in Headers : served = 0 /\ get_graph_edges(header, 0, DefaultLimit)

AuthSearch ==
    \E header \in Headers, q \in {"ada", "x"} :
        served = 0 /\ search_graph_nodes(header, q)

AuthSearchOptimized ==
    \E header \in Headers, q \in {"ada", "x"} :
        served = 0 /\ search_optimized_graph_nodes(header, q)

AuthCreatePerson ==
    \E header \in Headers : served = 0 /\ create_person(header, SampleCreate)

AuthGetPersons ==
    \E header \in Headers : served = 0 /\ get_persons(header, 0, DefaultLimit)

AuthGetPerson ==
    \E header \in Headers, person_id \in {"p1", "me"} :
        served = 0 /\ get_person(header, person_id)

AuthUpdatePerson ==
    \E header \in Headers, person_id \in {"p1", "p9"},
       person_data \in SampleUpdates, failing \in 0..2 :
        served = 0 /\ update_person(header, person_id, person_data, failing)

AuthUsersMe ==
    \E header \in Headers : served = 0 /\ read_users_me(header)

AuthUsers ==
    \E header \in Headers : served = 0 /\ read_users(header, 0, DefaultLimit)

NextAuth ==
    \/ AuthGraphNetwork \/ AuthOptimizedNetwork \/ AuthNodeConnections
    \/ AuthGraphNodes \/ AuthGraphEdges \/ AuthSearch \/ AuthSearchOptimized
    \/ AuthCreatePerson \/ AuthGetPersons \/ AuthGetPerson \/ AuthUpdatePerson
    \/ AuthUsersMe \/ AuthUsers

SpecAuth == InitAuth /\ [][NextAuth]_vars

----------------------------------------------------------------------------
(* Credentials as the claims classify them *)

OptionalEndpoints ==
    {"/graph/network", "/graph/network/optimized",
     "/graph/nodes/{node_id}/connections"}

StrictEndpoints ==
    {"/graph/nodes", "/graph/edges", "/graph/nodes/search",
     "/graph/nodes/search/optimized", "POST /persons/", "GET /persons/",
     "GET /persons/{person_id}", "PUT /persons/{person_id}",
     "/users/me", "/users/"}

Missing(header) == header = None

\* the token does not verify: bad signature, or no subject in the payload
Invalid(header) ==
    header # None /\ (header[1].sig # "valid" \/ header[1].sub = None)

Expired(header, t) ==
    header # None /\ header[1].exp # None /\ header[1].exp[1] < t

Verified(header, t) ==
    header # None /\ ~Invalid(header) /\ ~Expired(header, t)

Resolves(header, us) ==
    \E k \in 1..Len(us) : Some(us[k].email) = header[1].sub

ActiveAccount(header, us) ==
    \E k \in 1..Len(us) : Some(us[k].email) = header[1].sub /\ us[k].is_active

GoodCredential(header, us, t) ==
    Verified(header, t) /\ Resolves(header, us) /\ ActiveAccount(header, us)

\* C5: on the optional-auth endpoints a missing token, an invalid or expired
\* token, an unresolvable subject and an inactive account all classify the
\* caller as anonymous; none of them rejects the request.
C5_OptionalAuthDegradesToAnonymous ==
    (resp.endpoint \in OptionalEndpoints /\ ~GoodCredential(resp.header, users, now))
        => resp.caller = "anonymous"

\* C6: a strict-auth endpoint issues no graph-store or user-list query and
\* changes no store unless the bearer token verifies, its subject resolves
\* to a user and that user is active.
C6_StrictNoQueryUnlessAuthenticated ==
    [][(resp'.endpoint \in StrictEndpoints /\ served' # served
        /\ ~GoodCredential(resp'.header, users, now))
          => (/\ resp'.queries = << >>
              /\ persons' = persons /\ rels' = rels /\ users' = users)]_vars

\* a write endpoint turned down a validly signed, unexpired token of an
\* inactive account
C6_Witness ==
    /\ resp.endpoint = "POST /persons/"
    /\ resp.caller = "rejected"
    /\ Verified(resp.header, now) /\ Resolves(resp.header, users)
    /\ ~ActiveAccount(resp.header, users)

StrictResp == resp.endpoint \in StrictEndpoints

\* C7 as stated: in strict mode a missing, invalid or expired credential is
\* answered 401, a verified token whose subject resolves to no user 401 or
\* 403, an inactive account 400.
C7_StrictRejectionsAsStated ==
    StrictResp =>
        /\ (Missing(resp.header) \/ Invalid(resp.header) \/ Expired(resp.header, now))
              => resp.status = 401
        /\ (Verified(resp.header, now) /\ ~Resolves(resp.header, users))
              => resp.status \in {401, 403}
        /\ (Verified(resp.header, now) /\ Resolves(resp.header, users)
            /\ ~ActiveAccount(resp.header, users))
              => resp.status = 400

\* C7 amended: a verified token whose subject resolves to no user is
\* answered 404; the other two outcomes are as stated.
C7_StrictRejections ==
    StrictResp =>
        /\ (Missing(resp.header) \/ Invalid(resp.header) \/ Expired(resp.header, now))
              => (resp.status = 401 /\ resp.caller = "rejected")
        /\ (Verified(resp.header, now) /\ ~Resolves(resp.header, users))
              => (resp.status = 404 /\ resp.caller = "rejected")
        /\ (Verified(resp.header, now) /\ Resolves(resp.header, users)
            /\ ~ActiveAccount(resp.header, users))
              => (resp.status = 400 /\ resp.caller = "rejected")

\* a strict endpoint turned down a verified token of an unknown subject
C7_Witness ==
    /\ StrictResp
    /\ Verified(resp.header, now) /\ ~Resolves(resp.header, users)
    /\ resp.caller = "rejected"

\* C8: verify_token returns None for every token whose exp is in the past,
\* whatever its signature, and never raises; an expired token never
\* authenticates a strict-mode request.
C8_ExpiredTokenNeverVerifies ==
    /\ \A tk \in Tokens :
          /\ verify_token(tk, now).kind # "raise"
          /\ (tk.exp # None /\ tk.exp[1] < now) => verify_token(tk, now).kind = "none"
    /\ (StrictResp /\ Expired(resp.header, now))
          => (resp.status = 401 /\ resp.caller = "rejected" /\ resp.queries = << >>)

\* a strict endpoint turned down the expired, validly signed token of an
\* active account
C8_Witness ==
    /\ StrictResp
    /\ Expired(resp.header, now) /\ ~Invalid(resp.header)
    /\ ActiveAccount(resp.header, users)
    /\ resp.status = 401

----------------------------------------------------------------------------
(* SpecPersons: fetches and partial updates of stored Person nodes, by an   *)
(* authenticated user and by a caller with a bad token.                     *)

PersonsSample ==
    <<[MkPerson(PersonIds[1], Some("user_created")) EXCEPT
          !["created_by"] = Some("ada@x.org"),
          !["birth_year"] = Some(1900),
          !["occupation"] = Some(<<"User">>),
          !["is_verified"] = Some(TRUE)],
      MkPerson(PersonIds[2], Some("system"))>>

\* the value a request supplies for a field; falsy values included
SuppliedValue(f) ==
    CASE f = "name" -> Some("DA")
      [] f = "birth_year" -> Some(1815)
      [] f = "death_year" -> Some(1852)
      [] f = "occupation" -> Some(<<"x">>)
      [] f = "specialty" -> Some(<<"x">>)
      [] f = "hobby" -> Some(<< >>)
      [] f = "achievement" -> Some("x")
      [] f = "female_experience" -> Some(<<"x">>)
      [] f = "type" -> Some("user")
      [] f = "frequency" -> Some(0)
      [] f = "degree" -> Some(1)
      [] f = "description" -> Some("")
      [] f = "human_readable_id" -> Some("x")
      [] f = "knowledge_source" -> Some("x")
      [] f = "is_verified" -> Some(FALSE)

\* PersonUpdate bodies: no field set, or exactly one
UpdateBodies ==
    {EmptyUpdate} \cup
    {[EmptyUpdate EXCEPT ![f] = SuppliedValue(f)] : f \in UpdateFields}

InitPersons ==
    /\ persons = PersonsSample
    /\ rels = << >>
    /\ users = <<MkUser("ada@x.org", TRUE)>>
    /\ now = 0
    /\ served = 0
    /\ inflight = << >>
    /\ resp = BaseResp("", None, << >>)

PersonsUpdate ==
    \E header \in GraphHeaders, person_id \in {"p1", "p9"},
       person_data \in UpdateBodies, failing \in 0..2 :
        /\ served < MaxRequests
        /\ update_person(header, person_id, person_data, failing)

PersonsGet ==
    \E header \in GraphHeaders, person_id \in {"p1", "p2", "p9"} :
        /\ served < MaxRequests
        /\ get_person(header, person_id)

NextPersons == PersonsUpdate \/ PersonsGet

SpecPersons == InitPersons /\ [][NextPersons]_vars

PutResp == resp.endpoint = "PUT /persons/{person_id}"

\* the fields a request body gives a value to
SuppliedFields(person_data) ==
    {f \in DOMAIN person_data : person_data[f] # None}

Stored(ps, person_id) == \E i \in 1..Len(ps) : ps[i]["id"] = Some(person_id)

\* C9 as stated: a partial update that supplies zero recognized fields is
\* rejected with 400 and writes nothing, for any person id (the caller
\* authenticated, the store answering).
C9_EmptyUpdateRejected400 ==
    (/\ PutResp /\ resp.caller = "authenticated"
     /\ resp.params.failing = 0
     /\ SuppliedFields(resp.params.person_data) = {})
        => (resp.status = 400 /\ "update_query" \notin Range(resp.queries))

\* C9 amended: a partial update that supplies zero recognized fields never
\* writes to the graph store, for any person id; an authenticated caller is
\* answered 400 when a Person with that id exists, 404 when none does, and
\* 500 when the existence check fails in the store.
C9_EmptyUpdateNeverWrites ==
    [][(/\ served' # served
        /\ resp'.endpoint = "PUT /persons/{person_id}"
        /\ SuppliedFields(resp'.params.person_data) = {})
          => (/\ persons' = persons /\ rels' = rels
              /\ "update_query" \notin Range(resp'.queries)
              /\ resp'.caller = "authenticated" =>
                    resp'.status =
                        IF resp'.params.failing = 1 THEN 500
                        ELSE IF Stored(persons, resp'.params.person_id) THEN 400
                        ELSE 404)]_vars

\* an authenticated empty update of a stored Person was answered 400, after
\* an earlier update had written to it
C9_Witness ==
    /\ PutResp /\ resp.caller = "authenticated"
    /\ SuppliedFields(resp.params.person_data) = {}
    /\ Stored(persons, resp.params.person_id)
    /\ resp.status = 400
    /\ persons # PersonsSample

\* what GET /persons/{person_id} shows of the i-th stored node
Fetch(ps, i) == person_response(ps[i])

\* C10: a partial update that sets exactly one field changes only that
\* field: in a fetch before and a fetch after, every other attribute
\* (id, source_type, created_by and created_at included) has its prior value.
C10_OneFieldUpdateFrame ==
    [][(/\ served' # served
        /\ resp'.endpoint = "PUT /persons/{person_id}"
        /\ Cardinality(SuppliedFields(resp'.params.person_data)) = 1)
          => (/\ Len(persons') = Len(persons)
              /\ \A i \in 1..Len(persons) :
                    /\ \A f \in PersonFields \ SuppliedFields(resp'.params.person_data) :
                          Fetch(persons', i)[f] = Fetch(persons, i)[f]
                    /\ persons[i]["id"] # Some(resp'.params.person_id)
                          => persons'[i] = persons[i]
                    /\ (resp'.status = 200
                        /\ persons[i]["id"] = Some(resp'.params.person_id))
                          => \A f \in SuppliedFields(resp'.params.person_data) :
                                persons'[i][f] = resp'.params.person_data[f])]_vars

\* a one-field update went through and the fetch shows the new value, which
\* differs from the stored one before
C10_Witness ==
    /\ PutResp /\ resp.status = 200
    /\ Cardinality(SuppliedFields(resp.params.person_data)) = 1
    /\ \E f \in SuppliedFields(resp.params.person_data) :
          /\ resp.body[f] = resp.params.person_data[f]
          /\ resp.body[f] # Fetch(PersonsSample, 1)[f]
    /\ resp.body["created_by"] = Some("ada@x.org")

----------------------------------------------------------------------------
(* Registration: POST /auth/register and create_user *)

\* email.split("@")[0]
LocalPart(email) ==
    CASE email = "ada@x.org" -> "ada"
      [] email = "bob@x.org" -> "bob"

\* what the CREATE of create_user does in the graph store: it returns the
\* created node, returns no row, or raises
GraphWrites == {"created", "no_row", "raises"}

\* the Person node create_user writes for a new user
user_person(person_id, user_create, t) ==
    LET display == IF TruthyStr(user_create.full_name)
                   THEN user_create.full_name[1]
                   ELSE LocalPart(user_create.email)
    IN [f \in PersonFields |->
          CASE f = "id" -> person_id
            [] f = "name" -> Some(display)
            [] f = "birth_year" -> Some(1995)
            [] f = "occupation" -> Some(<<"User">>)
            [] f = "specialty" -> Some(<<"User">>)
            [] f = "achievement" -> Some("New user registration")
            [] f = "type" -> Some("user")
            [] f = "frequency" -> Some(1)
            [] f = "degree" -> Some(1)
            [] f = "description" -> Some("profile of " \o display)
            [] f = "human_readable_id" -> Some("0")
            [] f = "knowledge_source" -> Some("user created")
            [] f = "source_type" -> Some("user_created")
            [] f = "created_by" -> Some(user_create.email)
            [] f = "is_verified" -> Some(FALSE)
            [] f = "created_at" -> Some("t" \o ToString(t))
            [] OTHER -> None]

\* a slip of create_user: the exception handler re-raises
create_user_reraise(us, ps, user_create, graph, t) ==
    IF get_user_by_email(us, user_create.email) # None
    THEN [raised |-> "ValueError", user |-> None, users |-> us, persons |-> ps]
    ELSE IF graph = "created"
    THEN [raised |-> "",
          user |-> Some([MkUser(user_create.email, TRUE) EXCEPT
                            !.neo4j_person_id = PersonIds[Len(ps) + 1],
                            !.is_in_graph = TRUE]),
          users |-> Append(us, [MkUser(user_create.email, TRUE) EXCEPT
                            !.neo4j_person_id = PersonIds[Len(ps) + 1],
                            !.is_in_graph = TRUE]),
          persons |-> Append(ps, user_person(PersonIds[Len(ps) + 1], user_create, t))]
    ELSE [raised |-> "Exception", user |-> None,
          users |-> Append(us, MkUser(user_create.email, TRUE)),
          persons |-> ps]

\* create_user: the row is committed first, then the Person node is written;
\* any exception of the graph part is caught and the row is marked as not
\* in the graph
create_user(us, ps, user_create, graph, t) ==
    LET db_user == MkUser(user_create.email, TRUE)
        person_id == PersonIds[Len(ps) + 1]
        linked == [db_user EXCEPT !.neo4j_person_id = person_id,
                                  !.is_in_graph = TRUE]
        unlinked == [db_user EXCEPT !.neo4j_person_id = None,
                                    !.is_in_graph = FALSE]
    IN IF get_user_by_email(us, user_create.email) # None
       THEN [raised |-> "ValueError", user |-> None,
             users |-> us, persons |-> ps]
       ELSE IF graph = "created"
       THEN [raised |-> "", user |-> Some(linked),
             users |-> Append(us, linked),
             persons |-> Append(ps, user_person(person_id, user_create, t))]
       ELSE [raised |-> "", user |-> Some(unlinked),
             users |-> Append(us, unlinked), persons |-> ps]

\* POST /auth/register
register(register_data, graph) ==
    LET base == BaseResp("POST /auth/register", None,
                         [register_data |-> register_data, graph |-> graph])
        out == create_user(users, persons, register_data, graph, now)
    IN /\ Len(persons) < Len(PersonIds)
       /\ users' = out.users
       /\ persons' = out.persons
       /\ resp' = IF out.raised = "ValueError"
                  THEN [base EXCEPT !.status = 400, !.caller = "rejected"]
                  ELSE IF out.raised # ""
                  THEN [base EXCEPT !.status = 500, !.caller = "rejected"]
                  ELSE [base EXCEPT
                          !.status = 201, !.caller = "anonymous",
                          !.queries = <<"create_query">>,
                          !.body = out.user[1]]
       /\ served' = served + 1
       /\ UNCHANGED <<rels, now, inflight>>

----------------------------------------------------------------------------
(* SpecRegister: registrations against a graph store that may fail, and    *)
(* the new users' first requests.                                           *)

RegisterBodies ==
    [email : Emails, full_name : {None, Some(""), Some("Ada")}]

InitRegister ==
    /\ persons = << >>
    /\ rels = << >>
    /\ users \in {<< >>, <<MkUser("bob@x.org", TRUE)>>}
    /\ now \in 0..MaxTime
    /\ served = 0
    /\ inflight = << >>
    /\ resp = BaseResp("", None, << >>)

Register ==
    \E register_data \in RegisterBodies, graph \in GraphWrites :
        /\ served < MaxRequests
        /\ register(register_data, graph)

RegisterUsersMe ==
    \E email \in Emails :
        /\ served < MaxRequests
        /\ read_users_me(Some(ValidToken(email)))

NextRegister == Register \/ RegisterUsersMe

SpecRegister == InitRegister /\ [][NextRegister]_vars

\* C11: after a registration in which the graph-store write fails, the
\* relational user row exists with is_in_graph false and neo4j_person_id
\* unset, no Person node was added, and no exception escaped create_user
\* (the registration is answered 201 with that row).
C11_RegistrationSurvivesGraphFailure ==
    [][(/\ served' # served
        /\ resp'.endpoint = "POST /auth/register"
        /\ resp'.params.graph # "created"
        /\ get_user_by_email(users, resp'.params.register_data.email) = None)
          => (/\ resp'.status = 201
              /\ LET row == get_user_by_email(users', resp'.params.register_data.email)
                 IN /\ row # None
                    /\ row[1].is_in_graph = FALSE
                    /\ row[1].neo4j_person_id = None
                    /\ row[1].is_active = TRUE
                    /\ resp'.body = row[1]
              /\ Len(users') = Len(users) + 1
              /\ persons' = persons)]_vars

\* a registration whose graph write raised was answered 201 with an
\* unlinked row, after an earlier registration that was linked
C11_Witness ==
    /\ resp.endpoint = "POST /auth/register"
    /\ resp.params.graph = "raises"
    /\ resp.status = 201
    /\ resp.body.is_in_graph = FALSE
    /\ Len(persons) = 1
    /\ \E k \in 1..Len(users) : users[k].is_in_graph

----------------------------------------------------------------------------
(* SpecNeighbors: neighbor lookups and edge listings over two Persons      *)
(* joined by up to MaxNeighbors relationships of one or two labels.         *)

\* the labels of the stored relationships: all RELATED_TO, none, or every
\* third one of another label
LabelPatterns == {"related", "other", "mixed"}

LabelAt(pattern, k) ==
    CASE pattern = "related" -> "RELATED_TO"
      [] pattern = "other" -> "KNOWS"
      [] pattern = "mixed" -> IF k % 3 = 0 THEN "KNOWS" ELSE "RELATED_TO"

\* n relationships between the first two Persons, in alternating direction,
\* the k-th of strength k
NeighborRels(n, pattern, st) ==
    [k \in 1..n |->
        [MkRel(IF k % 2 = 1 THEN 1 ELSE 2, IF k % 2 = 1 THEN 2 ELSE 1, st)
            EXCEPT !.rtype = LabelAt(pattern, k), !.strength = Some(k)]]

InitNeighbors ==
    /\ \E s1 \in SourceTypes, s2 \in SourceTypes :
          persons = <<MkPerson(PersonIds[1], s1), MkPerson(PersonIds[2], s2)>>
    /\ \E n \in 0..MaxNeighbors, pattern \in LabelPatterns,
          st \in {None, Some("user_created")} :
          rels = NeighborRels(n, pattern, st)
    /\ users = <<MkUser("ada@x.org", TRUE)>>
    /\ now = 0
    /\ served = 0
    /\ inflight = << >>
    /\ resp = BaseResp("", None, << >>)

NeighborsLookup ==
    \E header \in GraphHeaders, node_id \in {"p1", "p2", "p9"} :
        served = 0 /\ get_node_connections(header, node_id)

NeighborsEdges ==
    \E header \in GraphHeaders, skip \in Skips, limit \in Limits :
        served = 0 /\ get_graph_edges(header, skip, limit)

NextNeighbors == NeighborsLookup \/ NeighborsEdges

SpecNeighbors == InitNeighbors /\ [][NextNeighbors]_vars

ConnectionsResp ==
    /\ resp.endpoint = "/graph/nodes/{node_id}/connections"
    /\ resp.caller \in {"anonymous", "authenticated"}

\* the stored relationships with the Person of this id at either end
Touching(node_id) ==
    {i \in 1..Len(rels) : \/ persons[rels[i].a]["id"] = Some(node_id)
                          \/ persons[rels[i].b]["id"] = Some(node_id)}

----------------------------------------------------------------------------
(* SpecSearch: both search endpoints over a store of up to MaxMatches      *)
(* Persons built from a few templates.                                      *)

\* the k-th stored Person of a search store
SearchPerson(k, template) ==
    LET base == [MkPerson(Some("p" \o ToString(k)), Some("system"))
                    EXCEPT !["name"] = None]
    IN CASE template = 0 ->
              \* the text "x" only in the second element of occupation
              [base EXCEPT !["name"] = Some("Ada"),
                           !["occupation"] = Some(<<"User", "x">>)]
         [] template = 1 ->
              \* no name; type "user"
              [base EXCEPT !["type"] = Some("user")]
         [] template = 2 ->
              [base EXCEPT !["name"] = Some("DA"), !["hobby"] = Some(<< >>),
                           !["description"] = Some("x")]
         [] template = 3 ->
              [base EXCEPT !["name"] = Some("DA"),
                           !["specialty"] = Some(<<"x", "User">>),
                           !["achievement"] = Some("ada")]

StorePatterns == {"occupation", "cycle", "named"}

SearchStore(n, pattern) ==
    [k \in 1..n |->
        CASE pattern = "occupation" -> SearchPerson(k, 0)
          [] pattern = "cycle" -> SearchPerson(k, k % 4)
          [] pattern = "named" -> SearchPerson(k, IF k % 2 = 0 THEN 0 ELSE 3)]

SearchTexts == {"ada", "A", "x", "user", "USER", "DA"}

InitSearch ==
    /\ \E n \in 0..MaxMatches, pattern \in StorePatterns :
          persons = SearchStore(n, pattern)
    /\ rels = << >>
    /\ users = <<MkUser("ada@x.org", TRUE)>>
    /\ now = 0
    /\ served = 0
    /\ inflight = << >>
    /\ resp = BaseResp("", None, << >>)

SearchRequest ==
    \E header \in GraphHeaders, q \in SearchTexts :
        served = 0 /\ search_graph_nodes(header, q)

SearchOptimizedRequest ==
    \E header \in GraphHeaders, q \in SearchTexts :
        served = 0 /\ search_optimized_graph_nodes(header, q)

NextSearch == SearchRequest \/ SearchOptimizedRequest

SpecSearch == InitSearch /\ [][NextSearch]_vars

SearchEndpoints == {"/graph/nodes/search", "/graph/nodes/search/optimized"}

\* q is a substring of text, letter case ignored
SubstringNoCase(q, text) ==
    LET qs == Chars(q)
        ts == Chars(text)
    IN \E k \in 0..(Len(ts) - Len(qs)) :
          \A j \in 1..Len(qs) : LowerChar(ts[k + j]) = LowerChar(qs[j])

\* the texts of a Person that search looks at
SearchedTexts(p) ==
    {p[f][1] : f \in {g \in {"name", "achievement", "description", "type"} :
                          p[g] # None}}
    \cup {p[f][1][1] : f \in {g \in {"occupation", "specialty", "hobby"} :
                                 p[g] # None /\ Len(p[g][1]) > 0}}

Matching(q) ==
    {i \in 1..Len(persons) : \E text \in SearchedTexts(persons[i]) :
                                 SubstringNoCase(q, text)}

----------------------------------------------------------------------------
(* SpecShape: the node and edge endpoints over stores in which a Person    *)
(* may lack its id or its name.                                             *)

\* the k-th stored Person, with or without id and name
ShapePerson(k, has) ==
    [MkPerson(IF has[1] THEN Some("p" \o ToString(k)) ELSE None, Some("system"))
        EXCEPT !["name"] = IF has[2] THEN Some("Ada") ELSE None]

ShapeStores ==
    {[k \in 1..Len(hs) |-> ShapePerson(k, hs[k])] :
        hs \in {h \in SeqsUpTo(BOOLEAN \X BOOLEAN, MaxPersons) : Len(h) >= 1}}

ShapeRels(n) ==
    {[k \in 1..Len(es) |-> MkRel(es[k][1], es[k][2], Some("system"))] :
        es \in SeqsUpTo((1..n) \X (1..n), MaxRels)}

InitShape ==
    /\ persons \in ShapeStores
    /\ rels \in ShapeRels(Len(persons))
    /\ users = <<MkUser("ada@x.org", TRUE)>>
    /\ now = 0
    /\ served = 0
    /\ inflight = << >>
    /\ resp = BaseResp("", None, << >>)

ShapeNodes ==
    \E header \in GraphHeaders :
        served = 0 /\ get_graph_nodes(header, 0, DefaultLimit)

ShapeEdges ==
    \E header \in GraphHeaders :
        served = 0 /\ get_graph_edges(header, 0, DefaultLimit)

ShapeSearch ==
    \E header \in GraphHeaders :
        served = 0 /\ search_graph_nodes(header, "ada")

ShapeSearchOptimized ==
    \E header \in GraphHeaders :
        served = 0 /\ search_optimized_graph_nodes(header, "ada")

ShapeNetwork ==
    \E header \in GraphHeaders :
        served = 0 /\ get_graph_network(header, 0, DefaultLimit, 0, DefaultLimit)

ShapeOptimized ==
    \E header \in GraphHeaders :
        /\ served = 0
        /\ get_optimized_graph_network(header, 0, DefaultLimit, 0, DefaultLimit)

NextShape ==
    \/ ShapeNodes \/ ShapeEdges \/ ShapeSearch \/ ShapeSearchOptimized
    \/ ShapeNetwork \/ ShapeOptimized

SpecShape == InitShape /\ [][NextShape]_vars

NodeEndpoints ==
    {"/graph/nodes", "/graph/nodes/search", "/graph/network",
     "/graph/network/optimized", "/graph/nodes/search/optimized"}

EdgeEndpoints == {"/graph/edges", "/graph/network", "/graph/network/optimized"}

Served == resp.caller \in {"anonymous", "authenticated"}

\* C14: every node of every node-returning graph endpoint has a non-null
\* identifier, and a request whose store rows include a Person with no id
\* (every row having a name) is still answered 200, one node per row.
C14_NodeIdsNeverNull ==
    (resp.endpoint \in NodeEndpoints /\ Served) =>
        /\ \A k \in 1..Len(resp.nodes) : resp.nodes[k].id # None
        /\ (\A i \in Range(resp.nodes_result) : persons[i]["name"] # None)
              => (/\ resp.status = 200
                  /\ Len(resp.nodes) = Len(resp.nodes_result))

\* the relationships the store returns to the edges query of resp
SelectedEdges ==
    edges_query(IF resp.caller = "authenticated" THEN Some(users[1]) ELSE None,
                persons, rels, 0, DefaultLimit)

\* C15: every stored edge selected by /graph/edges, /graph/network or
\* /graph/network/optimized appears in the output, with non-null source and
\* target, and the request is answered 200, also when the Person at either
\* end has no id.
C15_EdgesKeptWithPlaceholders ==
    (resp.endpoint \in EdgeEndpoints /\ Served) =>
        /\ resp.status = 200
        /\ Len(resp.edges) = Len(SelectedEdges)
        /\ \A k \in 1..Len(resp.edges) :
              resp.edges[k].source # None /\ resp.edges[k].target # None

----------------------------------------------------------------------------
(* SpecConcurrent: PUT /persons/{person_id} handled by several workers.    *)
(* The handler body has no await, so within one event loop it runs as one   *)
(* step (update_person above); across worker processes its two store        *)
(* queries are separate auto-commit transactions and interleave.            *)

Idle ==
    [pc |-> "idle", header |-> None, person_id |-> "", person_data |-> EmptyUpdate,
     result |-> << >>, wrote |-> 0, status |-> 0]

ConcurrentBodies ==
    {[EmptyUpdate EXCEPT !["name"] = Some("DA")],
     [EmptyUpdate EXCEPT !["name"] = Some("x")],
     [EmptyUpdate EXCEPT !["birth_year"] = Some(1815)],
     [EmptyUpdate EXCEPT !["name"] = Some("x"), !["birth_year"] = Some(1852)],
     EmptyUpdate}

InitConcurrent ==
    /\ persons = PersonsSample
    /\ rels = << >>
    /\ users = <<MkUser("ada@x.org", TRUE)>>
    /\ now = 0
    /\ served = 0
    /\ resp = BaseResp("", None, << >>)
    /\ inflight = [w \in 1..MaxWriters |-> Idle]

\* the response a worker sends, and the end of its request
Finish(w, status, body) ==
    /\ inflight' = [inflight EXCEPT ![w].pc = "done", ![w].status = status]
    /\ resp' = [BaseResp("PUT /persons/{person_id}", inflight[w].header,
                         [person_id |-> inflight[w].person_id,
                          person_data |-> inflight[w].person_data,
                          failing |-> 0])
                  EXCEPT !.status = status,
                         !.caller = "authenticated",
                         !.body = body]
    /\ served' = served + 1

\* the request arrives and Depends(get_current_user) runs
update_person_begin(w, header, person_id, person_data) ==
    LET auth == get_current_user(header, users, now)
    IN /\ inflight[w].pc = "idle"
       /\ IF auth.status # 200
          THEN /\ inflight' = [inflight EXCEPT
                                 ![w].pc = "done", ![w].header = header,
                                 ![w].person_id = person_id,
                                 ![w].person_data = person_data,
                                 ![w].status = auth.status]
               /\ resp' = Rejected("PUT /persons/{person_id}", header,
                                   [person_id |-> person_id,
                                    person_data |-> person_data, failing |-> 0],
                                   auth.status)
               /\ served' = served + 1
          ELSE /\ inflight' = [inflight EXCEPT
                                 ![w].pc = "check", ![w].header = header,
                                 ![w].person_id = person_id,
                                 ![w].person_data = person_data]
               /\ UNCHANGED <<resp, served>>
       /\ UNCHANGED <<persons, rels, users, now>>

\* check_query runs; 404 without a row, 400 without a field to update
update_person_check(w) ==
    LET rows == match_person(persons, inflight[w].person_id)
    IN /\ inflight[w].pc = "check"
       /\ IF Len(rows) = 0 THEN Finish(w, 404, << >>)
          ELSE IF update_fields(inflight[w].person_data) = {}
          THEN Finish(w, 400, << >>)
          ELSE /\ inflight' = [inflight EXCEPT
                                 ![w].pc = "update",
                                 ![w].result = [k \in 1..Len(rows) |-> persons[rows[k]]]]
               /\ UNCHANGED <<resp, served>>
       /\ UNCHANGED <<persons, rels, users, now>>

\* a slip of run_update_query: the node read by check_query is written back
\* with the new fields
run_update_query_stale(ps, result, person_id, person_data) ==
    [i \in 1..Len(ps) |->
        IF ps[i]["id"] = Some(person_id)
        THEN [f \in PersonFields |->
                 IF f \in update_fields(person_data) THEN person_data[f]
                 ELSE result[1][f]]
        ELSE ps[i]]

\* update_query: MATCH (p:Person {id: $id}) SET <fields> RETURN p, one
\* transaction on the store as it is now; the rows of check_query play no part
run_update_query(ps, result, person_id, person_data) ==
    apply_update(ps, person_id, person_data)

\* update_query runs and the response is built from its row
update_person_write(w) ==
    LET updated == run_update_query(persons, inflight[w].result,
                                    inflight[w].person_id, inflight[w].person_data)
        rows == match_person(persons, inflight[w].person_id)
        answer == fetch_response(BaseResp("", None, << >>), "update_query",
                                 rows, updated)
        order == 1 + Cardinality({v \in 1..Len(inflight) : inflight[v].wrote > 0})
    IN /\ inflight[w].pc = "update"
       /\ persons' = updated
       /\ inflight' = [inflight EXCEPT ![w].pc = "done",
                                       ![w].status = answer.status,
                                       ![w].wrote = order]
       /\ resp' = [answer EXCEPT
                     !.endpoint = "PUT /persons/{person_id}",
                     !.header = inflight[w].header,
                     !.params = [person_id |-> inflight[w].person_id,
                                 person_data |-> inflight[w].person_data,
                                 failing |-> 0],
                     !.queries = <<"check_query", "update_query">>]
       /\ served' = served + 1
       /\ UNCHANGED <<rels, users, now>>

ConcurrentBegin ==
    \E w \in 1..MaxWriters, header \in GraphHeaders,
       person_id \in {"p1", "p9"}, person_data \in ConcurrentBodies :
        /\ inflight[w].pc = "idle"
        /\ update_person_begin(w, header, person_id, person_data)

ConcurrentCheck ==
    \E w \in 1..MaxWriters :
        inflight[w].pc = "check" /\ update_person_check(w)

ConcurrentWrite ==
    \E w \in 1..MaxWriters :
        inflight[w].pc = "update" /\ update_person_write(w)

NextConcurrent == ConcurrentBegin \/ ConcurrentCheck \/ ConcurrentWrite

SpecConcurrent == InitConcurrent /\ [][NextConcurrent]_vars

\* the workers whose update query has run on this Person and set field f
Writers(person_id, f) ==
    {w \in 1..Len(inflight) :
        /\ inflight[w].wrote > 0
        /\ inflight[w].person_id = person_id
        /\ inflight[w].person_data[f] # None}

LastWriter(person_id, f) ==
    CHOOSE w \in Writers(person_id, f) :
        \A v \in Writers(person_id, f) : inflight[v].wrote <= inflight[w].wrote

\* C16: concurrent partial updates of one Person are never rejected for a
\* conflict (an authenticated update of a stored Person that supplies a
\* field is answered 200) and resolve last-write-wins per field: in every
\* interleaving each field holds the value of the last update query that
\* set it, and its initial value when none did, so updates of disjoint
\* fields both take effect.
C16_LastWriteWinsPerField ==
    /\ \A w \in 1..Len(inflight) :
          /\ inflight[w].status \in {0, 200, 400, 401, 404}
          /\ (/\ inflight[w].pc = "done"
              /\ get_current_user(inflight[w].header, users, now).status = 200
              /\ Stored(PersonsSample, inflight[w].person_id)
              /\ SuppliedFields(inflight[w].person_data) # {})
                => (inflight[w].status = 200 /\ inflight[w].wrote > 0)
    /\ \A i \in 1..Len(persons) : \A f \in PersonFields :
          persons[i][f] =
             IF persons[i]["id"] # None /\ f \in UpdateFields
                /\ Writers(persons[i]["id"][1], f) # {}
             THEN inflight[LastWriter(persons[i]["id"][1], f)].person_data[f]
             ELSE PersonsSample[i][f]

\* two workers both passed the existence check before either wrote; the
\* first wrote name and birth_year, the second then wrote name alone: the
\* name is the second one's, the birth year the first one's
C16_Witness ==
    /\ Len(inflight) >= 2
    /\ inflight[1].pc = "done" /\ inflight[2].pc = "done"
    /\ inflight[1].wrote = 2 /\ inflight[2].wrote = 1
    /\ inflight[1].result[1]["name"] = Some("Ada")
    /\ inflight[2].result[1]["name"] = Some("Ada")
    /\ inflight[1].person_data["name"] = Some("DA")
    /\ inflight[1].person_data["birth_year"] = None
    /\ inflight[2].person_data["name"] = Some("x")
    /\ inflight[2].person_data["birth_year"] = Some(1852)
    /\ persons[1]["name"] = Some("DA")
    /\ persons[1]["birth_year"] = Some(1852)

----------------------------------------------------------------------------
(* SpecFailure: the graph and person endpoints when execute_query raises.  *)
(* execute_query runs the query once in an auto-commit session and lets     *)
(* the driver's error propagate; every handler catches it in its            *)
(* except Exception clause.                                                 *)

\* the queries a handler sends to the graph store, in order
EndpointQueries(endpoint) ==
    CASE endpoint = "/graph/nodes" -> <<"nodes_query">>
      [] endpoint = "/graph/edges" -> <<"edges_query">>
      [] endpoint = "/graph/network" -> <<"nodes_query", "edges_query">>
      [] endpoint = "/graph/nodes/search" -> <<"search_query">>
      [] endpoint = "/graph/nodes/{node_id}/connections" -> <<"connections_query">>
      [] endpoint = "/graph/network/optimized" -> <<"nodes_query", "edges_query">>
      [] endpoint = "/graph/nodes/search/optimized" -> <<"search_query">>
      [] endpoint = "POST /persons/" -> <<"create_query">>
      [] endpoint = "GET /persons/" -> <<"persons_query">>
      [] endpoint = "GET /persons/{person_id}" -> <<"person_query">>
      [] endpoint = "PUT /persons/{person_id}" -> <<"check_query", "update_query">>

\* the fixed part of the detail of a handler's 500
FailurePrefix(endpoint) ==
    CASE endpoint = "/graph/nodes" -> "Failed to retrieve graph nodes"
      [] endpoint = "/graph/edges" -> "Failed to retrieve graph edges"
      [] endpoint = "/graph/network" -> "Failed to retrieve graph network"
      [] endpoint = "/graph/nodes/search" -> "Failed to search graph nodes"
      [] endpoint = "/graph/nodes/{node_id}/connections" ->
            "Failed to retrieve node connections"
      [] endpoint = "/graph/network/optimized" ->
            "Failed to retrieve optimized graph network"
      [] endpoint = "/graph/nodes/search/optimized" ->
            "Failed to search optimized graph nodes"
      [] endpoint = "POST /persons/" -> "Failed to create person node"
      [] endpoint = "GET /persons/" -> "Failed to retrieve persons"
      [] endpoint = "GET /persons/{person_id}" -> "Failed to retrieve person"
      [] endpoint = "PUT /persons/{person_id}" -> "Failed to update person"

\* the messages of the errors the driver raises
StoreMessages == {"ServiceUnavailable", "TransientError"}

\* a slip of store_failure: /graph/network answers with the nodes it has
\* when the edges query fails
store_failure_salvage(endpoint, header, params, failing, message) ==
    LET auth == IF endpoint \in OptionalEndpoints
                THEN get_current_user_or_none(header, users, now)
                ELSE get_current_user(header, users, now)
    IN /\ resp' =
            IF auth.status # 200
            THEN Rejected(endpoint, header, params, auth.status)
            ELSE IF failing = 2
            THEN [BaseResp(endpoint, header, params) EXCEPT
                    !.status = 200, !.caller = Caller(auth.user),
                    !.queries = EndpointQueries(endpoint),
                    !.nodes = [k \in 1..Len(persons) |-> network_node(k - 1, persons[k])]]
            ELSE [BaseResp(endpoint, header, params) EXCEPT
                    !.status = 500, !.caller = Caller(auth.user),
                    !.queries = SubSeq(EndpointQueries(endpoint), 1, failing),
                    !.body = [detail |-> <<FailurePrefix(endpoint), message>>]]
       /\ served' = served + 1
       /\ UNCHANGED <<persons, rels, users, now, inflight>>

\* a request whose failing-th query raises with this message: the queries
\* before it ran, nothing after it runs, and the except clause answers
\* 500 with detail f"{prefix}: {str(e)}"
store_failure(endpoint, header, params, failing, message) ==
    LET auth == IF endpoint \in OptionalEndpoints
                THEN get_current_user_or_none(header, users, now)
                ELSE get_current_user(header, users, now)
    IN /\ resp' =
            IF auth.status # 200
            THEN Rejected(endpoint, header, params, auth.status)
            ELSE [BaseResp(endpoint, header, params) EXCEPT
                    !.status = 500, !.caller = Caller(auth.user),
                    !.queries = SubSeq(EndpointQueries(endpoint), 1, failing),
                    !.body = [detail |-> <<FailurePrefix(endpoint), message>>]]
       /\ served' = served + 1
       /\ UNCHANGED <<persons, rels, users, now, inflight>>

FailureParams(failing, message) == [failing |-> failing, message |-> message]

InitFailure ==
    /\ persons \in ShapeStores
    /\ rels \in ShapeRels(Len(persons))
    /\ users = <<MkUser("ada@x.org", TRUE)>>
    /\ now = 0
    /\ served = 0
    /\ inflight = << >>
    /\ resp = BaseResp("", None, << >>)

\* a handler with one store query, which fails
FailureOneQuery ==
    \E header \in GraphHeaders, message \in StoreMessages,
       endpoint \in {"/graph/nodes", "/graph/edges", "/graph/nodes/search",
                     "/graph/nodes/{node_id}/connections",
                     "/graph/nodes/search/optimized", "POST /persons/",
                     "GET /persons/", "GET /persons/{person_id}"} :
        /\ served = 0
        /\ store_failure(endpoint, header, FailureParams(1, message), 1, message)

\* /graph/network and /graph/network/optimized: the nodes query or the
\* edges query fails
FailureNetwork ==
    \E header \in GraphHeaders, message \in StoreMessages, failing \in 1..2,
       endpoint \in {"/graph/network", "/graph/network/optimized"} :
        /\ served = 0
        /\ store_failure(endpoint, header, FailureParams(failing, message),
                         failing, message)

\* PUT /persons/{person_id}: the update query is reached only after the
\* existence check found the Person and the body supplies a field
FailureUpdate ==
    \E header \in GraphHeaders, message \in StoreMessages, failing \in 1..2,
       person_id \in {"p1", "p9"}, person_data \in SampleUpdates :
        /\ served = 0
        /\ IF failing = 2 /\ (match_person(persons, person_id) = << >>
                              \/ update_fields(person_data) = {})
           THEN update_person(header, person_id, person_data, 0)
           ELSE store_failure("PUT /persons/{person_id}", header,
                              FailureParams(failing, message), failing, message)

\* the same requests with the store answering
FailureNone ==
    \E header \in GraphHeaders :
        /\ served = 0
        /\ \/ get_graph_network(header, 0, DefaultLimit, 0, DefaultLimit)
           \/ get_graph_nodes(header, 0, DefaultLimit)

NextFailure == FailureOneQuery \/ FailureNetwork \/ FailureUpdate \/ FailureNone

SpecFailure == InitFailure /\ [][NextFailure]_vars

\* C17: when a graph-store query fails inside a graph or person endpoint,
\* the response is a 500 whose detail carries the store's message, every
\* query up to the failing one was sent once and none after it, the stores
\* are unchanged and the response holds no node or edge: in /graph/network a
\* failure of the edges query after a successful nodes query yields the 500
\* and not the nodes alone.
C17_StoreFailureIs500 ==
    [][(/\ served' # served
        /\ resp'.caller \in {"anonymous", "authenticated"}
        /\ "failing" \in DOMAIN resp'.params
        /\ "message" \in DOMAIN resp'.params)
          => (/\ resp'.status = 500
              /\ resp'.body.detail[2] = resp'.params.message
              /\ resp'.body.detail[1] = FailurePrefix(resp'.endpoint)
              /\ resp'.queries =
                    SubSeq(EndpointQueries(resp'.endpoint), 1, resp'.params.failing)
              /\ resp'.nodes = << >> /\ resp'.edges = << >>
              /\ persons' = persons /\ rels' = rels /\ users' = users)]_vars

\* the edges query of /graph/network failed after its nodes query had run,
\* with Persons in the store, and the answer was a 500 without nodes
C17_Witness ==
    /\ resp.endpoint = "/graph/network"
    /\ resp.status = 500
    /\ resp.queries = <<"nodes_query", "edges_query">>
    /\ resp.params.failing = 2
    /\ Len(persons) >= 1
    /\ resp.nodes = << >>
    /\ resp.body.detail = <<"Failed to retrieve graph network", "TransientError">>

----------------------------------------------------------------------------
(* SpecPatch: PUT /persons/{person_id} with JSON bodies in which a key is  *)
(* absent, null or a value.                                                 *)

PatchKeys == {"name", "hobby", "frequency", "is_verified"}

\* JSON objects over PatchKeys: each key absent, null, or the value of
\* SuppliedValue
JsonBodies ==
    UNION {[S -> {"null", "value"}] : S \in SUBSET PatchKeys}

JsonOf(shape) ==
    [f \in DOMAIN shape |-> IF shape[f] = "null" THEN None ELSE SuppliedValue(f)]

\* the stored Person p1 with and without a hobby and a frequency
PatchStores ==
    {[PersonsSample EXCEPT ![1]["hobby"] = h, ![1]["frequency"] = fr] :
        h \in {None, Some(<<"x">>)}, fr \in {None, Some(1)}}

InitPatch ==
    /\ persons \in PatchStores
    /\ rels = << >>
    /\ users = <<MkUser("ada@x.org", TRUE)>>
    /\ now = 0
    /\ served = 0
    /\ inflight = << >>
    /\ resp = BaseResp("", None, << >>)

PatchUpdate ==
    \E header \in GraphHeaders, person_id \in {"p1", "p9"}, shape \in JsonBodies :
        /\ served = 0
        /\ put_person(header, person_id, JsonOf(shape), 0)

PatchGet ==
    \E header \in GraphHeaders :
        /\ served = 0
        /\ get_person(header, "p1")

NextPatch == PatchUpdate \/ PatchGet

SpecPatch == InitPatch /\ [][NextPatch]_vars

\* the step is the handling of PUT /persons/p1 by an authenticated user
PatchServed ==
    /\ served' # served
    /\ resp'.endpoint = "PUT /persons/{person_id}"
    /\ resp'.caller = "authenticated"
    /\ resp'.params.person_id = "p1"

\* ... of a request that carried this JSON body
PatchStep(shape) == put_person(resp'.header, "p1", JsonOf(shape), 0)

\* C18 as stated: every field explicitly present in the request is
\* overwritten with the supplied value, a null, an empty list, 0 or false
\* included, and only the fields absent from the request keep their value.
C18_PresentFieldsOverwritten ==
    [][PatchServed =>
          \A shape \in JsonBodies :
              (PatchStep(shape) /\ DOMAIN shape # {}) =>
                  \A f \in UpdateFields :
                      persons'[1][f] = IF f \in DOMAIN shape THEN JsonOf(shape)[f]
                                       ELSE persons[1][f]]_vars

\* C18 amended: every field the request supplies with a value other than
\* null is overwritten with that value, an empty list, 0 or false included;
\* a field absent from the request or supplied as null keeps its value, and
\* a request that supplies nothing but nulls is answered 400 like an empty
\* one.
C18_NonNullFieldsOverwritten ==
    [][PatchServed =>
          \A shape \in JsonBodies :
              PatchStep(shape) =>
                  /\ \A f \in UpdateFields :
                        persons'[1][f] =
                            IF f \in DOMAIN shape /\ shape[f] = "value"
                            THEN SuppliedValue(f) ELSE persons[1][f]
                  /\ resp'.status =
                        IF \E f \in DOMAIN shape : shape[f] = "value"
                        THEN 200 ELSE 400]_vars

\* an update that supplied an empty list, 0 and false was answered 200 and
\* the fetch shows them, over a different stored value of is_verified
C18_Witness ==
    /\ PutResp /\ resp.status = 200
    /\ resp.params.person_data["hobby"] = Some(<< >>)
    /\ resp.params.person_data["frequency"] = Some(0)
    /\ resp.params.person_data["is_verified"] = Some(FALSE)
    /\ resp.params.person_data["name"] = None
    /\ resp.body["hobby"] = Some(<< >>)
    /\ persons[1]["hobby"] = Some(<< >>)
    /\ persons[1]["frequency"] = Some(0)
    /\ persons[1]["is_verified"] = Some(FALSE)
    /\ PersonsSample[1]["is_verified"] = Some(TRUE)
    /\ persons[1]["name"] = PersonsSample[1]["name"]

----------------------------------------------------------------------------
(* The neighbor lookup as anonymous callers and the response contract see it *)

\* C19: in an anonymous neighbor lookup every entry comes from a
\* relationship whose queried node and whose neighbor both have source_type
\* 'system', 'public' or none: nothing is returned for a queried node tagged
\* 'user_created' and no 'user_created' neighbor is returned.
C19_AnonymousNeighborsPublic ==
    (ConnectionsResp /\ resp.caller = "anonymous") =>
        \A k \in 1..Len(resp.edges_result) :
            /\ persons[resp.edges_result[k][2]]["source_type"] \in PublicOrAbsent
            /\ persons[resp.edges_result[k][3]]["source_type"] \in PublicOrAbsent

\* C20: a neighbor lookup whose store query succeeds is answered 200 with a
\* list of entries {neighbor id, strength, description}, one per row of the
\* query, as the endpoint's declared list response contract requires.
C20_NeighborLookupDelivered ==
    ConnectionsResp =>
        /\ resp.status = 200
        /\ DOMAIN resp.body = 1..Len(resp.edges_result)
        /\ \A k \in 1..Len(resp.edges_result) :
              DOMAIN resp.body[k] = {"target_id", "strength", "description"}

----------------------------------------------------------------------------
(* SpecYears: the optimized shape of Persons whose birth and death years   *)
(* are absent, zero or positive.                                            *)

YearValues == {None, Some(0), Some(1815), Some(1852)}

InitYears ==
    /\ \E b \in YearValues, d \in YearValues, st \in {Some("system"), Some("user_created")} :
          persons = <<[MkPerson(PersonIds[1], st) EXCEPT
                          !["birth_year"] = b, !["death_year"] = d]>>
    /\ rels = << >>
    /\ users = <<MkUser("ada@x.org", TRUE)>>
    /\ now = 0
    /\ served = 0
    /\ inflight = << >>
    /\ resp = BaseResp("", None, << >>)

YearsOptimized ==
    \E header \in GraphHeaders :
        /\ served = 0
        /\ get_optimized_graph_network(header, 0, DefaultLimit, 0, DefaultLimit)

YearsSearchOptimized ==
    \E header \in GraphHeaders :
        served = 0 /\ search_optimized_graph_nodes(header, "ada")

NextYears == YearsOptimized \/ YearsSearchOptimized

SpecYears == InitYears /\ [][NextYears]_vars

OptimizedNodeEndpoints ==
    {"/graph/network/optimized", "/graph/nodes/search/optimized"}

\* C21: in the optimized shape years is "{birth}-{death}" when both years
\* are known, "{birth}-" followed by the word for the present when only the
\* birth year is known, and absent when neither is known, a birth year of 0
\* being a known year.
C21_YearsFormat ==
    (resp.endpoint \in OptimizedNodeEndpoints /\ Served) =>
        \A k \in 1..Len(resp.nodes) :
            LET n == resp.nodes[k] IN
            /\ (n.birth_year # None /\ n.death_year # None) =>
                  n.years = Some(ToString(n.birth_year[1]) \o "-"
                                 \o ToString(n.death_year[1]))
            /\ (n.birth_year # None /\ n.death_year = None) =>
                  n.years = Some(ToString(n.birth_year[1]) \o "-" \o ZhiJin)
            /\ (n.birth_year = None /\ n.death_year = None) => n.years = None

----------------------------------------------------------------------------
(* SpecLogin: POST /auth/login issues tokens and verify_token reads them,   *)
(* on a clock finer than the whole seconds a token's exp claim is kept in.  *)

TicksPerSecond == 3     \* clock ticks in one second
MaxSkew == 4            \* ticks looked at on either side of a deadline

ACCESS_TOKEN_EXPIRE_MINUTES == 30

\* timedelta(minutes=ACCESS_TOKEN_EXPIRE_MINUTES), in clock ticks
default_expires_delta == ACCESS_TOKEN_EXPIRE_MINUTES * 60 * TicksPerSecond

\* timegm(dt.utctimetuple()): a datetime as whole seconds, the fraction cut
timegm(t) == t \div TicksPerSecond

\* a slip of create_access_token: exp rounded up to the next whole second
create_access_token_rounded_up(data, expires_delta, t) ==
    [sig |-> "valid", sub |-> data,
     exp |-> Some(timegm(t + GetOr(expires_delta, default_expires_delta)) + 1)]

\* create_access_token(data={"sub": ...}): expire is utcnow() plus the delta
\* (the configured default when none is given); jwt.encode writes exp as
\* timegm of expire and signs with SECRET_KEY
create_access_token(data, expires_delta, t) ==
    [sig |-> "valid", sub |-> data,
     exp |-> Some(timegm(t + GetOr(expires_delta, default_expires_delta)))]

\* authenticate_user: the row of that email when the password verifies
authenticate_user(us, email, password_ok) ==
    LET user == get_user_by_email(us, email) IN
    IF user = None THEN None
    ELSE IF ~password_ok THEN None
    ELSE user

\* POST /auth/login: 401 on bad credentials, 400 for an inactive account,
\* otherwise a bearer token for sub = user.email; the client keeps it
login(username, password_ok) ==
    LET user == authenticate_user(users, username, password_ok)
        params == [username |-> username, password_ok |-> password_ok, at |-> now]
    IN /\ IF user = None
          THEN /\ resp' = Rejected("/auth/login", None, params, 401)
               /\ UNCHANGED inflight
          ELSE IF ~user[1].is_active
          THEN /\ resp' = Rejected("/auth/login", None, params, 400)
               /\ UNCHANGED inflight
          ELSE LET access_token == create_access_token(Some(user[1].email), None, now)
               IN /\ resp' = [BaseResp("/auth/login", None, params) EXCEPT
                                !.status = 200, !.caller = "authenticated",
                                !.body = [access_token |-> access_token,
                                          token_type |-> "bearer"]]
                  /\ inflight' = <<[token |-> access_token,
                                    email |-> user[1].email, signed |-> now]>>
       /\ UNCHANGED <<persons, rels, users, now, served>>

\* the instants the clock visits: around the start and around the deadlines
ClockTimes ==
    {t \in 0..(default_expires_delta + 2 * MaxSkew + TicksPerSecond) :
        t <= MaxSkew \/ t >= default_expires_delta - MaxSkew}

\* tokens that carry no sub claim
NoSubjectTokens ==
    {[sig |-> "valid", sub |-> None, exp |-> e] :
        e \in {None, Some(timegm(default_expires_delta))}}

InitLogin ==
    /\ persons = << >>
    /\ rels = << >>
    /\ users = <<MkUser("ada@x.org", TRUE), MkUser("bob@x.org", FALSE)>>
    /\ now = 0
    /\ served = 0
    /\ inflight = << >>
    /\ resp = BaseResp("", None, << >>)

Login ==
    \E username \in Emails \cup {"eve@x.org"}, password_ok \in BOOLEAN :
        /\ now <= MaxSkew
        /\ login(username, password_ok)

LoginClock ==
    /\ \E t \in ClockTimes : t > now /\ now' = t
    /\ UNCHANGED <<persons, rels, users, served, resp, inflight>>

\* the client presents a token to verify_token at the present instant
LoginVerify ==
    \E issued \in Range(inflight) \cup
                  {[token |-> tk, email |-> "", signed |-> 0] : tk \in NoSubjectTokens} :
        /\ resp' = [BaseResp("verify_token", Some(issued.token),
                             [email |-> issued.email, signed |-> issued.signed,
                              at |-> now])
                       EXCEPT !.body = verify_token(issued.token, timegm(now))]
        /\ UNCHANGED <<persons, rels, users, now, served, inflight>>

NextLogin == Login \/ LoginClock \/ LoginVerify

SpecLogin == InitLogin /\ [][NextLogin]_vars

\* a verification of a token that login issued
VerifiedIssued ==
    /\ resp.endpoint = "verify_token"
    /\ resp.header[1].sub # None

\* the instant signing time plus time-to-live of the verified token
Deadline == resp.params.signed + default_expires_delta

\* C22 as stated: a token login issued for e verifies to e at every instant
\* before signing time plus the time-to-live and to invalid at every instant
\* after it; a token without a subject verifies to invalid.
C22_ValidUntilDeadline ==
    /\ VerifiedIssued =>
          /\ resp.params.at < Deadline =>
                resp.body = [kind |-> "data", email |-> Some(resp.params.email)]
          /\ resp.params.at > Deadline => resp.body.kind = "none"
    /\ (resp.endpoint = "verify_token" /\ resp.header[1].sub = None) =>
          resp.body.kind = "none"

\* C22 amended: a token login issued for e verifies to e at every instant up
\* to the end of the whole second in which signing time plus the
\* time-to-live falls, and to invalid at every instant of a later second; a
\* token without a subject verifies to invalid.
C22_ValidThroughDeadlineSecond ==
    /\ VerifiedIssued =>
          /\ resp.params.at \div TicksPerSecond <= Deadline \div TicksPerSecond =>
                resp.body = [kind |-> "data", email |-> Some(resp.params.email)]
          /\ resp.params.at \div TicksPerSecond > Deadline \div TicksPerSecond =>
                resp.body.kind = "none"
    /\ (resp.endpoint = "verify_token" /\ resp.header[1].sub = None) =>
          resp.body.kind = "none"

\* a token verified after its deadline but within the deadline's second
C22_Witness ==
    /\ VerifiedIssued
    /\ resp.params.at > Deadline
    /\ resp.params.at \div TicksPerSecond = Deadline \div TicksPerSecond
    /\ resp.body.kind = "data"

----------------------------------------------------------------------------
(* SpecIdentity: the optional-auth endpoints when the relational store may  *)
(* fail while the caller's identity is being resolved.                       *)

\* what the user lookup of one request does
DbOutcomes == {"ok", "raises"}

\* get_current_user_or_none with the lookup's outcome made explicit: the
\* whole body sits in try / except Exception, so an exception of
\* get_user_by_email is answered like every other failure, with None
get_current_user_or_none_db(header, us, t, db) ==
    LET o == oauth2_scheme(header) IN
    IF o.status # 200 THEN [status |-> o.status, user |-> None]
    ELSE LET token_data == verify_token(o.token[1], t) IN
         IF token_data.kind # "data" THEN [status |-> 200, user |-> None]
         ELSE IF db = "raises" THEN [status |-> 200, user |-> None]
         ELSE LET user == get_user_by_email(us, token_data.email[1]) IN
              IF user = None \/ ~user[1].is_active
              THEN [status |-> 200, user |-> None]
              ELSE [status |-> 200, user |-> user]

\* an optional-auth graph request whose identity lookup has outcome db
optional_auth_request(endpoint, header, db) ==
    LET params == NetworkParams(0, DefaultLimit, 0, DefaultLimit)
        auth == get_current_user_or_none_db(header, users, now, db)
        answer == IF auth.status # 200
                  THEN Rejected(endpoint, header, params, auth.status)
                  ELSE IF endpoint = "/graph/network"
                  THEN network_response(header, auth.user, persons, rels, params)
                  ELSE optimized_response(header, auth.user, persons, rels, params)
    IN /\ resp' = answer
       /\ inflight' = <<[db |-> db]>>
       /\ served' = served + 1
       /\ UNCHANGED <<persons, rels, users, now>>

IdentityNetwork ==
    \E header \in GraphHeaders \cup {None}, db \in DbOutcomes :
        /\ served = 0
        /\ optional_auth_request("/graph/network", header, db)

IdentityOptimized ==
    \E header \in GraphHeaders \cup {None}, db \in DbOutcomes :
        /\ served = 0
        /\ optional_auth_request("/graph/network/optimized", header, db)

NextIdentity == IdentityNetwork \/ IdentityOptimized

SpecIdentity == InitGraph /\ [][NextIdentity]_vars

\* the request reached the user lookup and the lookup raised
LookupRaised ==
    /\ served = 1
    /\ resp.endpoint \in OptionalEndpoints
    /\ Verified(resp.header, now)
    /\ inflight[1].db = "raises"

\* C23: on optional-auth endpoints a relational-store failure while the
\* identity is resolved is answered 500 and the request is not served as
\* anonymous.
C23_LookupFailureIs500 ==
    LookupRaised => (resp.status = 500 /\ resp.caller # "anonymous")

----------------------------------------------------------------------------
(* SpecLink: registrations and person creations in which any store call    *)
(* may raise, and what they leave in the user table and the graph.          *)

\* the store calls of create_user, in program order; the last two are those
\* of its except branch
CreateUserCalls ==
    {"lookup", "insert", "insert_refresh", "graph", "link", "link_refresh",
     "unlink", "unlink_refresh"}

\* the store calls of create_person, the caller's lookup included
CreatePersonCalls == {"auth_lookup", "graph", "link", "link_refresh"}

\* the try block of create_user once the row db_user is committed: CREATE
\* the node, then set both link columns and commit, then refresh
create_user_try(inserted, ps, node, failing) ==
    LET k == Len(inserted)
        linked == [inserted EXCEPT ![k].neo4j_person_id = node["id"],
                                   ![k].is_in_graph = TRUE]
    IN IF "graph" \in failing
       THEN [raised |-> TRUE, users |-> inserted, persons |-> ps]
       ELSE IF "link" \in failing
       THEN [raised |-> TRUE, users |-> inserted, persons |-> Append(ps, node)]
       ELSE [raised |-> "link_refresh" \in failing,
             users |-> linked, persons |-> Append(ps, node)]

\* a slip of create_user_calls: the except branch clears only is_in_graph
create_user_calls_half_unlink(us, ps, user_create, failing, t) ==
    LET db_user == MkUser(user_create.email, TRUE)
        inserted == Append(us, db_user)
        k == Len(inserted)
        node == user_person(PersonIds[Len(ps) + 1], user_create, t)
        try == create_user_try(inserted, ps, node, failing)
        unlinked == [try.users EXCEPT ![k].is_in_graph = FALSE]
    IN IF "lookup" \in failing
       THEN [raised |-> "Exception", user |-> None, users |-> us, persons |-> ps]
       ELSE IF get_user_by_email(us, user_create.email) # None
       THEN [raised |-> "ValueError", user |-> None, users |-> us, persons |-> ps]
       ELSE IF "insert" \in failing
       THEN [raised |-> "Exception", user |-> None, users |-> us, persons |-> ps]
       ELSE IF "insert_refresh" \in failing
       THEN [raised |-> "Exception", user |-> None,
             users |-> inserted, persons |-> ps]
       ELSE IF ~try.raised
       THEN [raised |-> "", user |-> Some(try.users[k]),
             users |-> try.users, persons |-> try.persons]
       ELSE IF "unlink" \in failing
       THEN [raised |-> "Exception", user |-> None,
             users |-> try.users, persons |-> try.persons]
       ELSE IF "unlink_refresh" \in failing
       THEN [raised |-> "Exception", user |-> None,
             users |-> unlinked, persons |-> try.persons]
       ELSE [raised |-> "", user |-> Some(unlinked[k]),
             users |-> unlinked, persons |-> try.persons]

\* create_user with the store calls in failing raising: a commit that
\* raises leaves the table as the last successful commit left it; the
\* except branch sets is_in_graph False and neo4j_person_id None and
\* commits again, and an exception there leaves the function
create_user_calls(us, ps, user_create, failing, t) ==
    LET db_user == MkUser(user_create.email, TRUE)
        inserted == Append(us, db_user)
        k == Len(inserted)
        node == user_person(PersonIds[Len(ps) + 1], user_create, t)
        try == create_user_try(inserted, ps, node, failing)
        unlinked == [try.users EXCEPT ![k].is_in_graph = FALSE,
                                      ![k].neo4j_person_id = None]
    IN IF "lookup" \in failing
       THEN [raised |-> "Exception", user |-> None, users |-> us, persons |-> ps]
       ELSE IF get_user_by_email(us, user_create.email) # None
       THEN [raised |-> "ValueError", user |-> None, users |-> us, persons |-> ps]
       ELSE IF "insert" \in failing
       THEN [raised |-> "Exception", user |-> None, users |-> us, persons |-> ps]
       ELSE IF "insert_refresh" \in failing
       THEN [raised |-> "Exception", user |-> None,
             users |-> inserted, persons |-> ps]
       ELSE IF ~try.raised
       THEN [raised |-> "", user |-> Some(try.users[k]),
             users |-> try.users, persons |-> try.persons]
       ELSE IF "unlink" \in failing
       THEN [raised |-> "Exception", user |-> None,
             users |-> try.users, persons |-> try.persons]
       ELSE IF "unlink_refresh" \in failing
       THEN [raised |-> "Exception", user |-> None,
             users |-> unlinked, persons |-> try.persons]
       ELSE [raised |-> "", user |-> Some(unlinked[k]),
             users |-> unlinked, persons |-> try.persons]

\* POST /auth/register over create_user_calls
register_calls(register_data, failing) ==
    LET base == BaseResp("POST /auth/register", None,
                         [register_data |-> register_data, failing |-> failing])
        out == create_user_calls(users, persons, register_data, failing, now)
    IN /\ Len(persons) < Len(PersonIds)
       /\ users' = out.users
       /\ persons' = out.persons
       /\ resp' = IF out.raised = "ValueError"
                  THEN [base EXCEPT !.status = 400, !.caller = "rejected"]
                  ELSE IF out.raised # ""
                  THEN [base EXCEPT !.status = 500, !.caller = "rejected"]
                  ELSE [base EXCEPT
                          !.status = 201, !.caller = "anonymous",
                          !.queries = <<"create_query">>,
                          !.body = out.user[1]]
       /\ served' = served + 1
       /\ UNCHANGED <<rels, now, inflight>>

\* a slip of created_node: created_by taken from the request body
created_node_from_body(person_id, person_data, current_user, t) ==
    [f \in PersonFields |->
        CASE f = "id" -> person_id
          [] f = "created_at" -> Some("t" \o ToString(t))
          [] OTHER -> person_data[f]]

\* the node POST /persons/ writes: id and created_at are made by the
\* handler, created_by is the caller's email, the rest is the body's
created_node(person_id, person_data, current_user, t) ==
    [f \in PersonFields |->
        CASE f = "id" -> person_id
          [] f = "created_by" -> Some(current_user.email)
          [] f = "created_at" -> Some("t" \o ToString(t))
          [] OTHER -> person_data[f]]

\* a slip of needs_link: every creation links its node
needs_link_always(current_user) == TRUE

\* if current_user.neo4j_person_id is None: only then is the user linked
needs_link(current_user) == current_user.neo4j_person_id = None

\* the user table after the link of create_person is committed
link_user(us, current_user, person_id) ==
    [k \in 1..Len(us) |->
        IF us[k].email = current_user.email
        THEN [us[k] EXCEPT !.neo4j_person_id = person_id, !.is_in_graph = TRUE]
        ELSE us[k]]

\* POST /persons/ with the store calls in failing raising: every exception
\* of the body is answered 500, and whatever was written before it stays
create_person_calls(header, person_data, failing) ==
    LET params == [person_data |-> person_data, failing |-> failing]
        base == BaseResp("POST /persons/", header, params)
        auth == get_current_user(header, users, now)
        current_user == auth.user[1]
        person_id == PersonIds[Len(persons) + 1]
        node == created_node(person_id, person_data, current_user, now)
        failed == [base EXCEPT !.status = 500, !.caller = "authenticated"]
    IN /\ Len(persons) < Len(PersonIds)
       /\ IF header # None /\ verify_token(header[1], now).kind = "data"
             /\ "auth_lookup" \in failing
          THEN /\ resp' = Rejected("POST /persons/", header, params, 500)
               /\ UNCHANGED <<persons, users>>
          ELSE IF auth.status # 200
          THEN /\ resp' = Rejected("POST /persons/", header, params, auth.status)
               /\ UNCHANGED <<persons, users>>
          ELSE IF "graph" \in failing
          THEN /\ resp' = failed
               /\ UNCHANGED <<persons, users>>
          ELSE /\ persons' = Append(persons, node)
               /\ IF ~needs_link(current_user)
                  THEN /\ UNCHANGED users
                       /\ resp' = [base EXCEPT
                                     !.status = 201, !.caller = "authenticated",
                                     !.queries = <<"create_query">>,
                                     !.body = person_response(node)]
                  ELSE IF "link" \in failing
                  THEN /\ UNCHANGED users
                       /\ resp' = [failed EXCEPT !.queries = <<"create_query">>]
                  ELSE /\ users' = link_user(users, current_user, person_id)
                       /\ resp' = IF "link_refresh" \in failing
                                  THEN [failed EXCEPT !.queries = <<"create_query">>]
                                  ELSE [base EXCEPT
                                          !.status = 201, !.caller = "authenticated",
                                          !.queries = <<"create_query">>,
                                          !.body = person_response(node)]
       /\ served' = served + 1
       /\ UNCHANGED <<rels, now, inflight>>

MaxLinkRequests == 3
MaxFailures == 2        \* store calls that raise in one request

Failing(calls) == {f \in SUBSET calls : Cardinality(f) <= MaxFailures}

\* PersonCreate bodies, one of them naming somebody else as the creator
LinkBodies ==
    {[SampleCreate EXCEPT !["created_by"] = c] : c \in {None, Some("eve@x.org")}}

InitLink ==
    /\ persons = << >>
    /\ rels = << >>
    /\ users = <<MkUser("ada@x.org", TRUE)>>
    /\ now = 0
    /\ served = 0
    /\ inflight = << >>
    /\ resp = BaseResp("", None, << >>)

LinkRegister ==
    \E email \in Emails, failing \in Failing(CreateUserCalls) :
        /\ served < MaxLinkRequests
        /\ register_calls([email |-> email, full_name |-> Some("Bob")], failing)

LinkCreate ==
    \E email \in Emails, person_data \in LinkBodies,
       failing \in Failing(CreatePersonCalls) :
        /\ served < MaxLinkRequests
        /\ create_person_calls(Some(ValidToken(email)), person_data, failing)

NextLink == LinkRegister \/ LinkCreate

SpecLink == InitLink /\ [][NextLink]_vars

\* C24: after any sequence of registrations and person creations, each
\* succeeding or failing at any store call, every user record has
\* is_in_graph true if and only if neo4j_person_id is set.
C24_LinkColumnsAgree ==
    \A k \in 1..Len(users) :
        users[k].is_in_graph <=> (users[k].neo4j_person_id # None)

\* a registration whose link was committed and whose except branch then
\* cleared it, beside a user linked by a person creation
C24_Witness ==
    /\ \E k \in 1..Len(users) : users[k].is_in_graph
    /\ \E k \in 1..Len(users) : ~users[k].is_in_graph
    /\ resp.endpoint = "POST /auth/register"
    /\ resp.status = 201
    /\ "link_refresh" \in resp.params.failing

\* a step of POST /persons/ and the email its caller is authenticated as
CreateStep == resp'.endpoint = "POST /persons/" /\ served' = served + 1
CreateCaller == resp'.header[1].sub[1]

\* C25: create_person never changes an existing link: a caller whose
\* neo4j_person_id is set keeps it and is_in_graph through every further
\* creation, and a caller whose neo4j_person_id is unset is linked to the
\* person of the creation that is answered 201.
C25_ExistingLinkKept ==
    [][CreateStep =>
          \A k \in 1..Len(users) :
              users[k].email = CreateCaller =>
                 /\ users[k].neo4j_person_id # None => users'[k] = users[k]
                 /\ (users[k].neo4j_person_id = None /\ resp'.status = 201) =>
                       /\ users'[k].neo4j_person_id = resp'.body["id"]
                       /\ users'[k].is_in_graph]_vars

\* ada, linked to her first person, has created a second one
C25_Witness ==
    /\ resp.endpoint = "POST /persons/" /\ resp.status = 201
    /\ resp.header[1].sub = Some("ada@x.org")
    /\ resp.body["id"] = PersonIds[2]
    /\ users[1].neo4j_person_id = PersonIds[1]
    /\ persons[1]["created_by"] = Some("ada@x.org")
    /\ persons[1]["type"] # Some("user")

\* C26: every Person node written by create_person has created_by equal to
\* the email of the authenticated caller, whatever created_by the request
\* body carries, and every node written by registration has created_by
\* equal to the registering user's email.
C26_CreatedByIsCaller ==
    [][Len(persons') = Len(persons) + 1 =>
          persons'[Len(persons')]["created_by"] =
              IF resp'.endpoint = "POST /persons/"
              THEN Some(CreateCaller)
              ELSE Some(resp'.params.register_data.email)]_vars

\* a creation whose body names eve as the creator, stored under the caller
C26_Witness ==
    /\ resp.endpoint = "POST /persons/" /\ resp.status = 201
    /\ resp.params.person_data["created_by"] = Some("eve@x.org")
    /\ persons[Len(persons)]["created_by"] = resp.header[1].sub
    /\ \E k \in 1..Len(persons) : persons[k]["type"] = Some("user")

----------------------------------------------------------------------------
(* SpecRoutes: the /persons router resolving GET requests, first match in  *)
(* registration order.                                                      *)

\* the routes of the /persons router in the order the decorators register
\* them; a path is its segments after the prefix
PersonRoutes ==
    <<[method |-> "POST", path |-> << >>, endpoint |-> "create_person"],
      [method |-> "GET", path |-> << >>, endpoint |-> "get_persons"],
      [method |-> "GET", path |-> <<"{person_id}">>, endpoint |-> "get_person"],
      [method |-> "PUT", path |-> <<"{person_id}">>, endpoint |-> "update_person"],
      [method |-> "GET", path |-> <<"me">>, endpoint |-> "get_my_person"]>>

PathParams == {"{person_id}"}

\* a route matches a request of its method whose path has its segments, a
\* path parameter matching any segment
route_matches(route, method, path) ==
    /\ route.method = method
    /\ Len(route.path) = Len(path)
    /\ \A k \in 1..Len(path) :
          route.path[k] \in PathParams \/ route.path[k] = path[k]

\* the first matching route, or none
resolve_route(routes, method, path) ==
    LET matching == SelectSeq(routes, LAMBDA r : route_matches(r, method, path))
    IN IF Len(matching) = 0 THEN None ELSE Some(matching[1])

\* GET /persons/me: 404 unless the user is linked, else the node whose id
\* is the user's neo4j_person_id
get_my_person(header) ==
    LET base == BaseResp("GET /persons/me", header, << >>)
        auth == get_current_user(header, users, now)
        current_user == auth.user[1]
    IN /\ resp' = IF auth.status # 200
                  THEN Rejected("GET /persons/me", header, << >>, auth.status)
                  ELSE IF ~current_user.is_in_graph
                          \/ ~TruthyStr(current_user.neo4j_person_id)
                  THEN [base EXCEPT !.status = 404, !.caller = "authenticated"]
                  ELSE fetch_response(base, "person_query",
                                      match_person(persons,
                                                   current_user.neo4j_person_id[1]),
                                      persons)
       /\ served' = served + 1
       /\ UNCHANGED <<persons, rels, users, now, inflight>>

\* a GET request to the /persons router
persons_router_get(header, path) ==
    LET route == resolve_route(PersonRoutes, "GET", path) IN
    /\ route # None
    /\ CASE route[1].endpoint = "get_persons" -> get_persons(header, 0, DefaultLimit)
         [] route[1].endpoint = "get_person" -> get_person(header, path[1])
         [] route[1].endpoint = "get_my_person" -> get_my_person(header)

\* stores of one or two Persons, the second of which may have the id "me"
RouteStores ==
    {[k \in 1..Len(sts) |->
         MkPerson(IF k = 2 /\ me THEN Some("me") ELSE PersonIds[k], sts[k])] :
        sts \in StoredPersons, me \in BOOLEAN}

InitRoutes ==
    /\ persons \in RouteStores
    /\ rels = << >>
    /\ \E link \in {None, PersonIds[1], PersonIds[2]} :
          users = <<[MkUser("ada@x.org", TRUE) EXCEPT
                        !.neo4j_person_id = link,
                        !.is_in_graph = (link # None)]>>
    /\ now = 0
    /\ served = 0
    /\ inflight = << >>
    /\ resp = BaseResp("", None, << >>)

RoutesList ==
    \E header \in GraphHeaders :
        served = 0 /\ persons_router_get(header, << >>)

RoutesMe ==
    \E header \in GraphHeaders :
        served = 0 /\ persons_router_get(header, <<"me">>)

RoutesOne ==
    \E header \in GraphHeaders, person_id \in {"p1", "p9"} :
        served = 0 /\ persons_router_get(header, <<person_id>>)

NextRoutes == RoutesList \/ RoutesMe \/ RoutesOne

SpecRoutes == InitRoutes /\ [][NextRoutes]_vars

\* the step handles GET /persons/me sent with this header
MeStep(header) == persons_router_get(header, <<"me">>)

\* the user the header authenticates has a linked Person that is stored
LinkedCaller(header) ==
    /\ get_current_user(header, users, now).status = 200
    /\ users[1].is_in_graph
    /\ users[1].neo4j_person_id # None
    /\ \E k \in 1..Len(persons) : persons[k]["id"] = users[1].neo4j_person_id

\* C27: GET /persons/me from an authenticated user with a linked Person is
\* handled by get_my_person and returns the node whose id is the user's
\* neo4j_person_id; it is not handled as a fetch of the node with the
\* literal id "me".
C27_MeReachesGetMyPerson ==
    [][\A header \in GraphHeaders :
          (served = 0 /\ MeStep(header) /\ LinkedCaller(header)) =>
              /\ resp'.endpoint = "GET /persons/me"
              /\ resp'.status = 200
              /\ resp'.body["id"] = users[1].neo4j_person_id]_vars

----------------------------------------------------------------------------
(* SpecRace: POST /auth/register handled for several clients at once.       *)
(* create_user awaits its lookup and each commit, so other registrations    *)
(* run between them.                                                        *)

IdleRegistration == [pc |-> "idle", email |-> "", status |-> 0]

\* INSERT of a user row: email is the table's unique key, so a second row
\* with the same email is refused by the store
insert_user(us, db_user) ==
    IF \E k \in 1..Len(us) : us[k].email = db_user.email
    THEN [raised |-> "IntegrityError", users |-> us]
    ELSE [raised |-> "", users |-> Append(us, db_user)]

\* the response of a registration, and the end of its request
register_finish(w, email, status) ==
    /\ inflight' = [inflight EXCEPT ![w] = [pc |-> "done", email |-> email,
                                            status |-> status]]
    /\ resp' = [BaseResp("POST /auth/register", None, [email |-> email, worker |-> w])
                  EXCEPT !.status = status,
                         !.caller = IF status = 201 THEN "anonymous" ELSE "rejected"]
    /\ served' = served + 1

\* a slip of register_begin: the lookup's result is not looked at
register_begin_no_check(w, email) ==
    /\ inflight[w].pc = "idle"
    /\ inflight' = [inflight EXCEPT ![w] = [pc |-> "insert", email |-> email,
                                            status |-> 0]]
    /\ UNCHANGED <<persons, rels, users, now, resp, served>>

\* the request arrives: get_user_by_email, and ValueError (400) when the
\* email has a row
register_begin(w, email) ==
    /\ inflight[w].pc = "idle"
    /\ IF get_user_by_email(users, email) # None
       THEN register_finish(w, email, 400)
       ELSE /\ inflight' = [inflight EXCEPT ![w] = [pc |-> "insert", email |-> email,
                                                    status |-> 0]]
            /\ UNCHANGED <<resp, served>>
    /\ UNCHANGED <<persons, rels, users, now>>

\* db.add(db_user); commit: an exception here is outside create_user's try
\* and register answers 500
register_insert(w) ==
    LET out == insert_user(users, MkUser(inflight[w].email, TRUE)) IN
    /\ inflight[w].pc = "insert"
    /\ users' = out.users
    /\ IF out.raised # ""
       THEN register_finish(w, inflight[w].email, 500)
       ELSE /\ inflight' = [inflight EXCEPT ![w].pc = "graph"]
            /\ UNCHANGED <<resp, served>>
    /\ UNCHANGED <<persons, rels, now>>

\* the graph part of create_user: the node is written and the row linked,
\* or the write fails and the row stays unlinked
register_graph(w, graph) ==
    LET email == inflight[w].email
        person_id == PersonIds[Len(persons) + 1]
        user_create == [email |-> email, full_name |-> None]
    IN /\ inflight[w].pc = "graph"
       /\ Len(persons) < Len(PersonIds)
       /\ IF graph = "created"
          THEN /\ persons' = Append(persons, user_person(person_id, user_create, now))
               /\ users' = [k \in 1..Len(users) |->
                              IF users[k].email = email
                              THEN [users[k] EXCEPT !.neo4j_person_id = person_id,
                                                    !.is_in_graph = TRUE]
                              ELSE users[k]]
          ELSE UNCHANGED <<persons, users>>
       /\ register_finish(w, email, 201)
       /\ UNCHANGED <<rels, now>>

InitRace ==
    /\ persons = << >>
    /\ rels = << >>
    /\ users \in {<< >>, <<MkUser("bob@x.org", TRUE)>>}
    /\ now = 0
    /\ served = 0
    /\ resp = BaseResp("", None, << >>)
    /\ inflight = [w \in 1..MaxWriters |-> IdleRegistration]

RaceBegin ==
    \E w \in 1..MaxWriters, email \in Emails :
        inflight[w].pc = "idle" /\ register_begin(w, email)

RaceInsert ==
    \E w \in 1..MaxWriters :
        inflight[w].pc = "insert" /\ register_insert(w)

RaceGraph ==
    \E w \in 1..MaxWriters, graph \in GraphWrites :
        inflight[w].pc = "graph" /\ register_graph(w, graph)

NextRace == RaceBegin \/ RaceInsert \/ RaceGraph

SpecRace == InitRace /\ [][NextRace]_vars

UserRows(email) == {k \in 1..Len(users) : users[k].email = email}

\* the Person nodes registration wrote for this email
RegistrationNodes(email) ==
    {k \in 1..Len(persons) :
        persons[k]["type"] = Some("user") /\ persons[k]["created_by"] = Some(email)}

\* worker w's request arrives in this step
Arrives(w) == inflight[w].pc = "idle" /\ inflight'[w].pc # "idle"

\* C28: a registration that arrives for an email that has a row is answered
\* 400 and adds neither a user row nor a Person node, and after any
\* interleaving of concurrent registrations every email has at most one
\* user row and at most one Person node written by registration.
C28_EmailStaysUnique ==
    /\ [](\A email \in Emails :
             /\ Cardinality(UserRows(email)) <= 1
             /\ Cardinality(RegistrationNodes(email)) <= 1)
    /\ [][\A w \in 1..MaxWriters :
             (Arrives(w) /\ UserRows(inflight'[w].email) # {}) =>
                 /\ inflight'[w].status = 400
                 /\ resp'.status = 400
                 /\ users' = users /\ persons' = persons]_vars

\* two registrations of one email passed the lookup together; one was
\* answered 201, the other lost at the insert; and a third request found the
\* email registered
C28_Witness ==
    /\ \E w \in 1..MaxWriters, v \in 1..MaxWriters :
          /\ w # v
          /\ inflight[w].status = 201 /\ inflight[v].status = 500
          /\ inflight[w].email = inflight[v].email
          /\ Cardinality(UserRows(inflight[w].email)) = 1
          /\ Cardinality(RegistrationNodes(inflight[w].email)) = 1

----------------------------------------------------------------------------
(* SpecLabels: one stored relationship, of any relationship type and with   *)
(* or without a `type` property, read through the three edge endpoints.     *)

RelTypes == {"RELATED_TO", "KNOWS"}
TypeProperties == {None, Some("RELATED_TO"), Some("KNOWS"), Some("mentor")}

InitLabels ==
    /\ \E s1 \in {Some("system"), Some("user_created")} :
          persons = <<MkPerson(PersonIds[1], s1), MkPerson(PersonIds[2], Some("public"))>>
    /\ \E rtype \in RelTypes, type \in TypeProperties,
          st \in {None, Some("user_created")} :
          rels = <<[MkRel(1, 2, st) EXCEPT !.rtype = rtype, !.type = type]>>
    /\ users = <<MkUser("ada@x.org", TRUE)>>
    /\ now = 0
    /\ served = 0
    /\ inflight = << >>
    /\ resp = BaseResp("", None, << >>)

LabelsNetwork ==
    \E header \in GraphHeaders :
        /\ served = 0
        /\ get_graph_network(header, 0, DefaultLimit, 0, DefaultLimit)

LabelsEdges ==
    \E header \in GraphHeaders :
        served = 0 /\ get_graph_edges(header, 0, DefaultLimit)

LabelsOptimized ==
    \E header \in GraphHeaders :
        /\ served = 0
        /\ get_optimized_graph_network(header, 0, DefaultLimit, 0, DefaultLimit)

NextLabels == LabelsNetwork \/ LabelsEdges \/ LabelsOptimized

SpecLabels == InitLabels /\ [][NextLabels]_vars

\* the label the other edge shape gives the stored relationship r
OtherShapeLabel(r) ==
    IF resp.endpoint = "/graph/network/optimized"
    THEN network_edge(0, Some("a"), Some("b"), r).label
    ELSE from_neo4j_relationship(0, r, Some("a"), Some("b")).label

\* C29: for the same stored relationship the label of the generic edge shape
\* (/graph/network, /graph/edges) equals the label of the optimized edge
\* shape (/graph/network/optimized), and it is "RELATED_TO" by default only
\* when the relationship carries no type of its own.
C29_LabelsAgree ==
    (resp.endpoint \in EdgeEndpoints /\ Served) =>
        \A k \in 1..Len(resp.edges) :
            LET r == rels[resp.edges_result[k]] IN
            /\ resp.edges[k].label = OtherShapeLabel(r)
            /\ resp.edges[k].label = Some("RELATED_TO") =>
                  (r.type = None \/ r.type = Some("RELATED_TO"))

----------------------------------------------------------------------------
(* SpecDriver: the shared Neo4jDatabase object, neo4j_db, under calls of    *)
(* get_driver, execute_query and close while the graph store comes and      *)
(* goes. inflight holds the object: _driver, and how many drivers were      *)
(* built so far.                                                            *)

MaxCalls == 6

\* what the store does to one call: GraphDatabase.driver(...) raises, or
\* verify_connectivity() raises, or both succeed
Connects == {"ok", "driver_raises", "verify_raises"}

\* what session.run does to one query
Runs == {"ok", "Neo4jError"}

\* get_driver on the object db: a driver is built only when _driver is
\* None; it is assigned to _driver before verify_connectivity() runs, and
\* the except clause logs and re-raises without touching _driver
get_driver(db, connect) ==
    IF db._driver # None
    THEN [raised |-> "", driver |-> db._driver, db |-> db,
          attempted |-> FALSE, checked |-> FALSE]
    ELSE IF connect = "driver_raises"
    THEN [raised |-> "driver", driver |-> None, db |-> db,
          attempted |-> TRUE, checked |-> FALSE]
    ELSE LET built == [serial |-> db.built + 1, verified |-> connect = "ok"]
             assigned == [db EXCEPT !._driver = Some(built), !.built = db.built + 1]
         IN IF connect = "verify_raises"
            THEN [raised |-> "verify", driver |-> None, db |-> assigned,
                  attempted |-> TRUE, checked |-> TRUE]
            ELSE [raised |-> "", driver |-> Some(built), db |-> assigned,
                  attempted |-> TRUE, checked |-> TRUE]

\* the record of one call on neo4j_db
driver_call(name, out, raised) ==
    [BaseResp(name, None, << >>) EXCEPT
        !.status = IF raised = "" THEN 200 ELSE 500,
        !.body = [raised |-> raised, driver |-> out.driver,
                  attempted |-> out.attempted, checked |-> out.checked]]

\* neo4j_db.get_driver()
GetDriver ==
    \E connect \in Connects :
        LET out == get_driver(inflight, connect) IN
        /\ served < MaxCalls
        /\ inflight' = out.db
        /\ resp' = driver_call("get_driver", out, out.raised)
        /\ served' = served + 1
        /\ UNCHANGED <<persons, rels, users, now>>

\* neo4j_db.execute_query(query): get_driver, then session.run
ExecuteQuery ==
    \E connect \in Connects, run \in Runs :
        LET out == get_driver(inflight, connect) IN
        /\ served < MaxCalls
        /\ inflight' = out.db
        /\ resp' = driver_call("execute_query", out,
                               IF out.raised # "" THEN out.raised
                               ELSE IF run = "ok" THEN "" ELSE run)
        /\ served' = served + 1
        /\ UNCHANGED <<persons, rels, users, now>>

\* neo4j_db.close(): a cached driver is closed and _driver set to None
CloseDriver ==
    /\ served < MaxCalls
    /\ inflight' = [inflight EXCEPT !._driver = None]
    /\ resp' = driver_call("close",
                           [driver |-> None, attempted |-> FALSE, checked |-> FALSE],
                           "")
    /\ served' = served + 1
    /\ UNCHANGED <<persons, rels, users, now>>

InitDriver ==
    /\ persons = << >>
    /\ rels = << >>
    /\ users = << >>
    /\ now = 0
    /\ served = 0
    /\ inflight = [_driver |-> None, built |-> 0]
    /\ resp = BaseResp("", None, << >>)

NextDriver == GetDriver \/ ExecuteQuery \/ CloseDriver

SpecDriver == InitDriver /\ [][NextDriver]_vars

\* the last call raised on the connectivity check
RaisedOnCheck ==
    resp.endpoint \in {"get_driver", "execute_query"} /\ resp.body.raised = "verify"

\* this step is a call that needs the driver
DriverCall == resp'.endpoint \in {"get_driver", "execute_query"} /\ served' = served + 1

\* C30: _driver is non-null only if its connectivity check succeeded; a
\* call that raised on the connectivity check is followed, on the next call
\* that needs the driver, by a fresh connection attempt and check; and after
\* close the next such call builds a new driver.
C30_OnlyVerifiedDriverCached ==
    /\ [](inflight._driver # None => inflight._driver[1].verified)
    /\ [][(RaisedOnCheck /\ DriverCall) =>
             (resp'.body.attempted /\ (resp'.body.raised # "driver" => resp'.body.checked))]_vars
    /\ [][(resp.endpoint = "close" /\ DriverCall) => resp'.body.attempted]_vars

====
